---- MODULE Spec2Model ----
(***************************************************************************)
(* A model of the AG-UI event reconciliation layer of dataagent-ag-ui:     *)
(* DeduplicatingOrchestrator.run (src/api/middleware/orchestrators.py),    *)
(* which consumes the event stream of the inner orchestrator for one turn  *)
(* and yields a deduplicated, well paired stream plus merged               *)
(* StateSnapshot events.                                                   *)
(*                                                                         *)
(* One step of the model is one iteration of the `async for event in       *)
(* self._inner.run(context)` loop: the handler of the event, with every    *)
(* yield it performs.  inp is the sequence of events received so far and   *)
(* out[i] the sequence of events yielded while inp[i] was handled, so that *)
(* the stream the client sees is Output.                                   *)
(***************************************************************************)
EXTENDS Naturals, Sequences, FiniteSets, TLC

(***************************************************************************)
(* Bounds of the model.                                                    *)
(***************************************************************************)
\* the number of upstream events of one turn, over the whole alphabet (Spec)
MaxEvents == 3

\* the number of upstream events of one turn of SpecText
MaxTextEvents == 4

\* the longest inner stream of a turn of SpecState
MaxStateEvents == 4

MaxMalformedEvents == 3

\* the turns of SpecTurns, served one after the other by one orchestrator instance,
\* and the events of the inner stream of one of them
MaxRuns == 2

MaxRunEvents == 3

\* the longest message history of a request of SpecRequest
MaxMessages == 3

\* the number of backend calls of a turn of SpecRequest
MaxCalls == 1

\* the turns of SpecSession
MaxTurns == 3

\* the turns of SpecCapture, which run one after the other, the backend calls of one
\* of them, and the updates of one streamed answer
MaxCaptureTurns == 2

MaxCaptureCalls == 2

MaxUpdates == 2

(***************************************************************************)
(* JSON / Python values.  A value is a record tagged by its Python type.   *)
(***************************************************************************)
JNull == [k |-> "null"]

JStr(s) == [k |-> "str", v |-> s]

JList(q) == [k |-> "list", v |-> q]

JDict(f) == [k |-> "dict", v |-> f]

JNum(i) == [k |-> "num", v |-> i]

\* the empty Python dict, as a function with empty domain
EmptyDict == << >>

\* bool(v) in Python
Truthy(x) ==
    CASE x.k = "null" -> FALSE
      [] x.k = "str"  -> x.v # ""
      [] x.k = "list" -> x.v # << >>
      [] x.k = "dict" -> DOMAIN x.v # {}
      [] x.k = "num"  -> x.v # 0

\* len(v) is defined (no TypeError)
Sized(x) == x.k \in {"str", "list", "dict"}

\* `value is not None and value != [] and value != {}`
NonEmptyValue(x) ==
    /\ x.k # "null"
    /\ ~(x.k = "list" /\ x.v = << >>)
    /\ ~(x.k = "dict" /\ DOMAIN x.v = {})

\* d.get(key) with a default
DictGet(d, key, default) == IF key \in DOMAIN d THEN d[key] ELSE default

\* {**a, **b}: the keys of both, the right operand wins
DictUpdate(a, b) ==
    [key \in DOMAIN a \cup DOMAIN b |-> IF key \in DOMAIN b THEN b[key] ELSE a[key]]

\* d[key] = value
DictSet(d, key, value) ==
    [x \in DOMAIN d \cup {key} |-> IF x = key THEN value ELSE d[x]]

\* d.pop(key)
DictDel(d, key) == [x \in DOMAIN d \ {key} |-> d[x]]

(***************************************************************************)
(* Program constants.                                                      *)
(***************************************************************************)
FRONTEND_ONLY_TOOLS ==
    {"filter_dashboard", "setThemeColor", "display_flight_list",
     "display_flight_detail", "display_historical_chart",
     "fetch_flight_details", "reload_all_flights"}

FRONTEND_ONLY_STATE_FIELDS == {"selectedRoute"}

COMMAND_TOOLS == {"fetch_flights", "clear_filter"}

KEEP == "__KEEP__"

(***************************************************************************)
(* The AG-UI events.                                                       *)
(***************************************************************************)
RunStartedEvent == [type |-> "RUN_STARTED"]

RunFinishedEvent == [type |-> "RUN_FINISHED"]

TextMessageStartEvent(m) == [type |-> "TEXT_MESSAGE_START", message_id |-> m]

TextMessageContentEvent(m, d) ==
    [type |-> "TEXT_MESSAGE_CONTENT", message_id |-> m, delta |-> d]

TextMessageEndEvent(m) == [type |-> "TEXT_MESSAGE_END", message_id |-> m]

ToolCallStartEvent(id, name) ==
    [type |-> "TOOL_CALL_START", tool_call_id |-> id, tool_call_name |-> name]

ToolCallArgsEvent(id, d) ==
    [type |-> "TOOL_CALL_ARGS", tool_call_id |-> id, delta |-> d]

ToolCallEndEvent(id) == [type |-> "TOOL_CALL_END", tool_call_id |-> id]

ToolCallResultEvent(id, c) ==
    [type |-> "TOOL_CALL_RESULT", tool_call_id |-> id, content |-> c]

\* snapshot is a JDict or JNull
StateSnapshotEvent(s) == [type |-> "STATE_SNAPSHOT", snapshot |-> s]

(***************************************************************************)
(* json.loads on the texts the model feeds in.  ArgsOpen \o ArgsClose is   *)
(* the only concatenation of argument fragments that is a JSON document;   *)
(* every other text that can arise is rejected (JSONDecodeError).          *)
(***************************************************************************)
ArgsOpen == "{\"route\":\"lax-jfk\""

ArgsClose == "}"

PlainContent == "done"

FlightsContent == "{\"flights\":[\"f1\"]}"

FilterContent == "{\"activeFilter\":{\"routeFrom\":\"LAX\",\"utilizationType\":\"__KEEP__\"}}"

EmptyFlightsContent == "{\"flights\":[]}"

FilterOverContent == "{\"activeFilter\":{\"routeFrom\":\"LAX\",\"utilizationType\":\"over\"}}"

\* the arguments of a filter_dashboard call in one fragment, and arguments naming no filter
WholeArgs == ArgsOpen \o ArgsClose

NoFilterArgs == "{}"

\* texts that parse, but not to what the handlers expect: arguments that are a list, a
\* tool result whose flights is null, a tool result whose activeFilter is a string
ListArgs == "[\"lax-jfk\"]"

NullFlightsContent == "{\"flights\":null}"

TextFilterContent == "{\"activeFilter\":\"LAX\"}"

JsonDocuments ==
    { <<ArgsOpen \o ArgsClose, JDict([route |-> JStr("lax-jfk")])>>,
      <<NoFilterArgs, JDict(EmptyDict)>>,
      <<ListArgs, JList(<<"lax-jfk">>)>>,
      <<NullFlightsContent, JDict([flights |-> JNull])>>,
      <<TextFilterContent, JDict([activeFilter |-> JStr("LAX")])>>,
      <<EmptyFlightsContent, JDict([flights |-> JList(<< >>)])>>,
      <<FilterOverContent,
        JDict([activeFilter |->
                 JDict([routeFrom |-> JStr("LAX"), utilizationType |-> JStr("over")])])>>,
      <<FlightsContent, JDict([flights |-> JList(<<"f1">>)])>>,
      <<FilterContent,
        JDict([activeFilter |->
                 JDict([routeFrom |-> JStr("LAX"), utilizationType |-> JStr(KEEP)])])>> }

JsonValid(text) == \E p \in JsonDocuments : p[1] = text

JsonLoads(text) == (CHOOSE p \in JsonDocuments : p[1] = text)[2]

\* route.upper().replace("-", " -> ").replace(" TO ", " -> ") on the routes of the model
NormalizeRoute(r) ==
    CASE r = "lax-jfk" -> "LAX -> JFK"
      [] OTHER -> r

\* {k: (None if v == "__KEEP__" else v) for k, v in raw_filter.items()}
CleanFilter(f) == [key \in DOMAIN f |-> IF f[key] = JStr(KEEP) THEN JNull ELSE f[key]]

(***************************************************************************)
(* The inputs of a turn.                                                   *)
(***************************************************************************)
MessageIds == {"m1", "m2"}

ToolCallIds == {"t1", "t2"}

ToolNames == {"fetch_flights", "filter_dashboard"}

ArgsDeltas == {ArgsOpen, ArgsClose}

ResultContents == {PlainContent, FilterContent}

Snapshots == { JDict([flights |-> JList(<<"f0">>), selectedRoute |-> JStr("AGENT")]),
               JDict([flights |-> JList(<< >>)]) }

\* context.input_data.get("state", {}) of the request
IncomingStates == { EmptyDict, [selectedRoute |-> JStr("SFO -> ORD")] }

TextStartEvents == { TextMessageStartEvent(m) : m \in MessageIds }

TextContentEvents == { TextMessageContentEvent(m, "x") : m \in MessageIds }

TextEndEvents == { TextMessageEndEvent(m) : m \in MessageIds }

ToolStartEvents == { ToolCallStartEvent(id, nm) : id \in ToolCallIds, nm \in ToolNames }

ToolArgsEvents == { ToolCallArgsEvent(id, d) : id \in ToolCallIds, d \in ArgsDeltas }

ToolEndEvents == { ToolCallEndEvent(id) : id \in ToolCallIds }

ToolResultEvents == { ToolCallResultEvent(id, c) : id \in ToolCallIds, c \in ResultContents }

SnapshotEvents == { StateSnapshotEvent(s) : s \in Snapshots }

(***************************************************************************)
(* State.                                                                  *)
(***************************************************************************)
VARIABLES
    status,                   \* "running", "raised" (run raised), "closed" (stream ended)
    inp,                      \* the events received from self._inner.run(context)
    out,                      \* out[i]: the events yielded while inp[i] was handled
    incoming_state,
    seen_tool_call_ids,
    completed_tool_call_ids,
    tool_call_names,
    command_tool_called,
    extracted_state,
    last_inner_state,
    frontend_state,
    pending_start_events,
    active_text_message_ids,
    tool_args_buffer,         \* self._tool_args_buffer ({} when the attribute is not set)
    current_active_filter,    \* the ContextVar of agents.logistics_agent
    agui_thread_id,           \* context.thread_id of the request
    thread_response_store,    \* _thread_response_store of middleware.responses_api
    input_messages,           \* the message history as the client sent it
    messages,                 \* context.messages of the request, as run() leaves them
    upstream,                 \* the requests the chat middleware passed on to the backend
    turns,                    \* SpecSession: the concurrent turns, one record each
    binding,                  \* _current_agui_thread_id, one value per context ("" is None)
    runs                      \* the calls of run() made so far on the orchestrator instance

vars == << status, inp, out, incoming_state, seen_tool_call_ids,
           completed_tool_call_ids, tool_call_names, command_tool_called,
           extracted_state, last_inner_state, frontend_state,
           pending_start_events, active_text_message_ids, tool_args_buffer,
           current_active_filter, agui_thread_id, thread_response_store,
           input_messages, messages, upstream, turns, binding, runs >>

toolVars == << seen_tool_call_ids, completed_tool_call_ids, tool_call_names,
               tool_args_buffer >>

textVars == << pending_start_events, active_text_message_ids >>

stateVars == << extracted_state, last_inner_state, current_active_filter >>

sessionVars == << turns, binding, runs >>

requestVars == << agui_thread_id, thread_response_store, input_messages, messages,
                  upstream, sessionVars >>

RECURSIVE Flatten(_)
Flatten(chunks) ==
    IF chunks = << >> THEN << >> ELSE Head(chunks) \o Flatten(Tail(chunks))

\* the stream the client receives
Output == Flatten(out)

\* the frontend-only fields of the incoming state that are present and not None
FrontendState(incoming) ==
    [f \in { g \in FRONTEND_ONLY_STATE_FIELDS \cap DOMAIN incoming : incoming[g] # JNull }
       |-> incoming[f]]

\* the value run() leaves in current_active_filter before the loop
InitialActiveFilter(incoming) ==
    IF "activeFilter" \in DOMAIN incoming /\ Truthy(incoming["activeFilter"])
    THEN JDict(CleanFilter(incoming["activeFilter"].v))
    ELSE JNull

\* fault: the frontend-owned fields are left out of the merge (C12 must notice)
MergedWithoutFrontend(inner, extracted, frontend) == DictUpdate(inner, extracted)

\* {**last_inner_state, **extracted_state, **frontend_state}
Merged(inner, extracted, frontend) == DictUpdate(DictUpdate(inner, extracted), frontend)

Init ==
    /\ status = "running"
    /\ inp = << >>
    /\ out = << >>
    /\ incoming_state \in IncomingStates
    /\ seen_tool_call_ids = {}
    /\ completed_tool_call_ids = {}
    /\ tool_call_names = EmptyDict
    /\ command_tool_called = FALSE
    /\ extracted_state = EmptyDict
    /\ last_inner_state = EmptyDict
    /\ frontend_state = FrontendState(incoming_state)
    /\ pending_start_events = EmptyDict
    /\ active_text_message_ids = {}
    /\ tool_args_buffer = EmptyDict
    /\ current_active_filter = InitialActiveFilter(incoming_state)
    /\ agui_thread_id = "th1"
    /\ thread_response_store = EmptyDict
    /\ input_messages = << >>
    /\ messages = << >>
    /\ upstream = << >>
    /\ turns = << >>
    /\ binding = << >>
    /\ runs = 1

\* the loop is waiting for the next event of the inner stream
Receiving == status = "running"

\* the handler of e ran to its end and yielded chunk
Yield(e, chunk) ==
    /\ inp' = Append(inp, e)
    /\ out' = Append(out, chunk)
    /\ UNCHANGED << status, incoming_state, frontend_state, requestVars >>

\* the handler of e raised after yielding chunk: the exception leaves run()
Raise(e, chunk) ==
    /\ inp' = Append(inp, e)
    /\ out' = Append(out, chunk)
    /\ status' = "raised"
    /\ UNCHANGED << incoming_state, frontend_state, requestVars >>

(***************************************************************************)
(* StateSnapshotEvent from the inner orchestrator: buffered, never         *)
(* yielded.                                                                *)
(***************************************************************************)
\* event.snapshot or {}
SnapshotOf(e) == IF Truthy(e.snapshot) THEN e.snapshot.v ELSE EmptyDict

\* len(snapshot.get('flights', [])) or len(snapshot.get('historicalData', [])) raises
SnapshotLenRaises(snap) ==
    \E key \in {"flights", "historicalData"} : key \in DOMAIN snap /\ ~Sized(snap[key])

\* the loop over snapshot.items(): a non-empty value overwrites, an empty one
\* only fills a key not seen before
AbsorbSnapshot(inner, snap) ==
    [key \in DOMAIN inner \cup DOMAIN snap |->
        IF key \in DOMAIN snap /\ (NonEmptyValue(snap[key]) \/ key \notin DOMAIN inner)
        THEN snap[key]
        ELSE inner[key]]

\* fault: the inner snapshot is passed on to the client (C10 must notice)
SnapshotChunkForwarded(e) == <<e>>

\* what the handler yields for a StateSnapshotEvent of the inner stream
SnapshotChunk(e) == << >>

OnStateSnapshot(e) ==
    /\ Receiving
    /\ e.type = "STATE_SNAPSHOT"
    /\ IF SnapshotLenRaises(SnapshotOf(e))
       THEN /\ Raise(e, << >>)
            /\ UNCHANGED last_inner_state
       ELSE /\ Yield(e, SnapshotChunk(e))
            /\ last_inner_state' = AbsorbSnapshot(last_inner_state, SnapshotOf(e))
    /\ UNCHANGED << toolVars, textVars, command_tool_called, extracted_state,
                    current_active_filter >>

(***************************************************************************)
(* Tool call events.                                                       *)
(***************************************************************************)
\* fault: the duplicate check of ToolCallStart left out (C1 must notice)
DuplicateToolCallStartIgnored(id) == FALSE

\* `if tool_call_id in seen_tool_call_ids: continue`
DuplicateToolCallStart(id) == id \in seen_tool_call_ids

OnToolCallStart(e) ==
    /\ Receiving
    /\ e.type = "TOOL_CALL_START"
    /\ IF DuplicateToolCallStart(e.tool_call_id)
       THEN /\ Yield(e, << >>)
            /\ UNCHANGED << seen_tool_call_ids, tool_call_names, command_tool_called >>
       ELSE /\ seen_tool_call_ids' = seen_tool_call_ids \cup {e.tool_call_id}
            /\ tool_call_names' = DictSet(tool_call_names, e.tool_call_id, e.tool_call_name)
            /\ command_tool_called' =
                   (command_tool_called \/ e.tool_call_name \in COMMAND_TOOLS)
            /\ Yield(e, <<e>>)
    /\ UNCHANGED << completed_tool_call_ids, tool_args_buffer, textVars, stateVars >>

\* the ToolCallArgsEvent is for a call that was never started
ArgsForUnknownCall(id) == id \notin seen_tool_call_ids

\* fault: arguments of an ended call are let through (C7 must notice)
ArgsForCompletedCallIgnored(id) == FALSE

\* the ToolCallArgsEvent is for a call that has ended
ArgsForCompletedCall(id) == id \in completed_tool_call_ids

OnToolCallArgs(e) ==
    /\ Receiving
    /\ e.type = "TOOL_CALL_ARGS"
    /\ IF ArgsForUnknownCall(e.tool_call_id) \/ ArgsForCompletedCall(e.tool_call_id)
       THEN /\ Yield(e, << >>)
            /\ UNCHANGED tool_args_buffer
       ELSE /\ tool_args_buffer' =
                   IF tool_call_names[e.tool_call_id] = "filter_dashboard" /\ e.delta # ""
                   THEN DictSet(tool_args_buffer, e.tool_call_id,
                                DictGet(tool_args_buffer, e.tool_call_id, "") \o e.delta)
                   ELSE tool_args_buffer
            /\ Yield(e, <<e>>)
    /\ UNCHANGED << seen_tool_call_ids, completed_tool_call_ids, tool_call_names,
                    command_tool_called, textVars, stateVars >>

\* the ToolCallEndEvent is for a call that was never started
EndForUnknownCall(id) == id \notin seen_tool_call_ids

\* the ToolCallEndEvent is for a call that has ended already
DuplicateToolCallEnd(id) == id \in completed_tool_call_ids

\* the buffered arguments of a filter_dashboard call, "" when there are none to parse
BufferedArgs(id) ==
    IF tool_call_names[id] = "filter_dashboard"
    THEN DictGet(tool_args_buffer, id, "")
    ELSE ""

\* fault: a ToolCallEnd whose arguments were not parsed is dropped (C28 must notice)
UnparsedEndChunkDropped(e) == << >>

\* what the handler yields for an accepted ToolCallEnd when there is nothing to parse
\* or json.loads raised and was caught: the `yield event` that ends the loop body
UnparsedEndChunk(e) == <<e>>

\* args.get(...) or route.upper() raises AttributeError on the parsed arguments
ArgsRaise(args) ==
    \/ args.k # "dict"
    \/ /\ "route" \in DOMAIN args.v
       /\ Truthy(args.v["route"])
       /\ args.v["route"].k # "str"

\* route, after `if route: route = route.upper().replace(...)`
RouteOf(args) ==
    LET route == DictGet(args.v, "route", JNull)
    IN  IF Truthy(route) THEN JStr(NormalizeRoute(route.v)) ELSE route

\* extracted_state after the arguments of a filter_dashboard call were parsed
ExtractFilterArgs(extracted, args) ==
    LET route == RouteOf(args)
        utilization_type == DictGet(args.v, "utilizationType", JNull)
        has_filter ==
            Truthy(route) \/ (Truthy(utilization_type) /\ utilization_type # JStr("all"))
    IN  IF has_filter
        THEN DictSet(DictSet(extracted, "activeFilter",
                             JDict([route |-> route, utilizationType |-> utilization_type])),
                     "selectedRoute", route)
        ELSE DictSet(DictSet(extracted, "activeFilter", JNull), "selectedRoute", JNull)

OnToolCallEnd(e) ==
    /\ Receiving
    /\ e.type = "TOOL_CALL_END"
    /\ IF EndForUnknownCall(e.tool_call_id) \/ DuplicateToolCallEnd(e.tool_call_id)
       THEN /\ Yield(e, << >>)
            /\ UNCHANGED << completed_tool_call_ids, extracted_state >>
       ELSE /\ completed_tool_call_ids' = completed_tool_call_ids \cup {e.tool_call_id}
            /\ LET args_str == BufferedArgs(e.tool_call_id)
               IN  IF args_str = "" \/ ~JsonValid(args_str)
                   THEN \* nothing to parse, or json.loads raised and was caught
                        /\ Yield(e, UnparsedEndChunk(e))
                        /\ UNCHANGED extracted_state
                   ELSE IF ArgsRaise(JsonLoads(args_str))
                   THEN /\ Raise(e, << >>)
                        /\ UNCHANGED extracted_state
                   ELSE /\ extracted_state' =
                               ExtractFilterArgs(extracted_state, JsonLoads(args_str))
                        /\ Yield(e, << e,
                                       StateSnapshotEvent(JDict(
                                           Merged(last_inner_state, extracted_state',
                                                  frontend_state))) >>)
    /\ UNCHANGED << seen_tool_call_ids, tool_call_names, tool_args_buffer,
                    command_tool_called, last_inner_state, current_active_filter,
                    textVars >>

\* fault: the result of a call that never started is let through (C6 must notice)
ResultForUnknownCallIgnored(id) == FALSE

\* the ToolCallResultEvent is for a call that was never started
ResultForUnknownCall(id) == id \notin seen_tool_call_ids

\* fault: the content of a tool result is never parsed (C32 must notice)
ParsedResultAsText(content) == JStr(content)

\* event.content after `if isinstance(result, str): try: result = json.loads(result)`
ParsedResult(content) == IF JsonValid(content) THEN JsonLoads(content) ELSE JStr(content)

\* len(result["flights"]), len(result["historical_data"]) or raw_filter.items() raises
ResultRaises(result) ==
    /\ result.k = "dict"
    /\ \/ \E key \in {"flights", "historical_data"} :
             key \in DOMAIN result.v /\ ~Sized(result.v[key])
       \/ "activeFilter" \in DOMAIN result.v /\ result.v["activeFilter"].k # "dict"

\* fault: an activeFilter in a result is stored like any other field (C39 must notice)
HasActiveFilterNever(result) == FALSE

\* the result carries an activeFilter: an early snapshot follows the result
HasActiveFilter(result) == result.k = "dict" /\ "activeFilter" \in DOMAIN result.v

\* extracted_state after the fields of a parsed tool result were copied
ExtractResult(extracted, result) ==
    LET d == result.v
        a == IF "flights" \in DOMAIN d THEN DictSet(extracted, "flights", d["flights"])
             ELSE extracted
        b == IF "historical_data" \in DOMAIN d
             THEN DictSet(a, "historicalData", d["historical_data"])
             ELSE a
        c == IF "selectedFlight" \in DOMAIN d
             THEN DictSet(b, "selectedFlight", d["selectedFlight"])
             ELSE b
    IN  IF "activeFilter" \in DOMAIN d
        THEN DictSet(c, "activeFilter", JDict(CleanFilter(d["activeFilter"].v)))
        ELSE c

OnToolCallResult(e) ==
    /\ Receiving
    /\ e.type = "TOOL_CALL_RESULT"
    /\ LET result == ParsedResult(e.content)
       IN  IF ResultForUnknownCall(e.tool_call_id)
           THEN /\ Yield(e, << >>)
                /\ UNCHANGED << extracted_state, command_tool_called, current_active_filter >>
           ELSE IF ResultRaises(result)
           THEN /\ Raise(e, << >>)
                /\ UNCHANGED << extracted_state, command_tool_called, current_active_filter >>
           ELSE IF HasActiveFilter(result)
           THEN /\ extracted_state' = ExtractResult(extracted_state, result)
                /\ command_tool_called' = TRUE
                /\ current_active_filter' = extracted_state'["activeFilter"]
                /\ Yield(e, << e,
                               StateSnapshotEvent(JDict(
                                   Merged(last_inner_state, extracted_state',
                                          frontend_state))) >>)
           ELSE /\ extracted_state' =
                       IF result.k = "dict" THEN ExtractResult(extracted_state, result)
                       ELSE extracted_state
                /\ Yield(e, <<e>>)
                /\ UNCHANGED << command_tool_called, current_active_filter >>
    /\ UNCHANGED << toolVars, textVars, last_inner_state >>

(***************************************************************************)
(* Text message events: a START is buffered until content arrives.         *)
(***************************************************************************)
\* fault: text is never suppressed (C5 must notice)
TextSuppressedNever == FALSE

\* `if command_tool_called: continue` of the START and CONTENT handlers
TextSuppressed == command_tool_called

\* the START is for a message that is buffered or active
DuplicateTextStart(m) == m \in DOMAIN pending_start_events \/ m \in active_text_message_ids

OnTextMessageStart(e) ==
    /\ Receiving
    /\ e.type = "TEXT_MESSAGE_START"
    /\ IF TextSuppressed \/ DuplicateTextStart(e.message_id)
       THEN UNCHANGED pending_start_events
       ELSE pending_start_events' = DictSet(pending_start_events, e.message_id, e)
    /\ Yield(e, << >>)
    /\ UNCHANGED << active_text_message_ids, toolVars, stateVars, command_tool_called >>

\* fault: the buffered START is not emitted with the first content (C2 must notice)
ContentChunkWithoutStart(e) ==
    IF e.message_id \in DOMAIN pending_start_events \/ e.message_id \in active_text_message_ids
    THEN <<e>>
    ELSE << >>

\* fault: content of a message that is neither buffered nor active is let through
\* (C9 must notice)
ContentChunkUnknownForwarded(e) ==
    IF e.message_id \in DOMAIN pending_start_events
    THEN << pending_start_events[e.message_id], e >>
    ELSE <<e>>

\* fault: the buffered START is emitted after the content (C35 must notice)
ContentChunkStartLast(e) ==
    IF e.message_id \in DOMAIN pending_start_events
    THEN << e, pending_start_events[e.message_id] >>
    ELSE IF e.message_id \in active_text_message_ids THEN <<e>> ELSE << >>

\* what the CONTENT handler yields when text is not suppressed
ContentChunk(e) ==
    IF e.message_id \in DOMAIN pending_start_events
    THEN << pending_start_events[e.message_id], e >>
    ELSE IF e.message_id \in active_text_message_ids THEN <<e>> ELSE << >>

OnTextMessageContent(e) ==
    /\ Receiving
    /\ e.type = "TEXT_MESSAGE_CONTENT"
    /\ IF TextSuppressed
       THEN /\ Yield(e, << >>)
            /\ UNCHANGED textVars
       ELSE /\ Yield(e, ContentChunk(e))
            /\ IF e.message_id \in DOMAIN pending_start_events
               THEN /\ pending_start_events' = DictDel(pending_start_events, e.message_id)
                    /\ active_text_message_ids' = active_text_message_ids \cup {e.message_id}
               ELSE UNCHANGED textVars
    /\ UNCHANGED << toolVars, stateVars, command_tool_called >>

\* fault: the END of a message that never had content is let through (C3 must notice)
EndChunkPhantomForwarded(e) ==
    IF e.message_id \in DOMAIN pending_start_events \/ e.message_id \in active_text_message_ids
    THEN <<e>>
    ELSE << >>

\* fault: the END is suppressed after a command tool, like the content (C38 must
\* notice)
EndChunkSuppressed(e) ==
    IF TextSuppressed \/ e.message_id \in DOMAIN pending_start_events THEN << >>
    ELSE IF e.message_id \in active_text_message_ids THEN <<e>> ELSE << >>

\* what the END handler yields
EndChunk(e) ==
    IF e.message_id \in DOMAIN pending_start_events THEN << >>
    ELSE IF e.message_id \in active_text_message_ids THEN <<e>> ELSE << >>

OnTextMessageEnd(e) ==
    /\ Receiving
    /\ e.type = "TEXT_MESSAGE_END"
    /\ Yield(e, EndChunk(e))
    /\ IF e.message_id \in DOMAIN pending_start_events
       THEN /\ pending_start_events' = DictDel(pending_start_events, e.message_id)
            /\ UNCHANGED active_text_message_ids
       ELSE /\ active_text_message_ids' = active_text_message_ids \ {e.message_id}
            /\ UNCHANGED pending_start_events
    /\ UNCHANGED << toolVars, stateVars, command_tool_called >>

(***************************************************************************)
(* RunFinishedEvent: close the open messages, emit the final snapshot.     *)
(***************************************************************************)
\* the orders in which `for msg_id in list(active_text_message_ids)` can visit a set
IterationOrders(S) ==
    { q \in [1..Cardinality(S) -> S] : \A x \in S : \E i \in DOMAIN q : q[i] = x }

\* fault: open messages are not closed at RunFinished (C4 must notice)
SyntheticEndsOmitted(q) == << >>

\* the synthetic TextMessageEndEvents, in iteration order q
SyntheticEnds(q) == [i \in DOMAIN q |-> TextMessageEndEvent(q[i])]

\* len(merged.get('flights', [])) or len(merged.get('historicalData', [])) raises
MergedLenRaises(merged) ==
    \E key \in {"flights", "historicalData"} : key \in DOMAIN merged /\ ~Sized(merged[key])

OnRunFinished(e) ==
    /\ Receiving
    /\ e.type = "RUN_FINISHED"
    /\ active_text_message_ids' = {}
    /\ pending_start_events' = EmptyDict
    /\ \E q \in IterationOrders(active_text_message_ids) :
          LET merged == Merged(last_inner_state, extracted_state, frontend_state)
          IN  IF MergedLenRaises(merged)
              THEN Raise(e, SyntheticEnds(q))
              ELSE Yield(e, SyntheticEnds(q) \o << StateSnapshotEvent(JDict(merged)), e >>)
    /\ UNCHANGED << toolVars, stateVars, command_tool_called >>

\* any other event (RunStartedEvent, ...) falls through to `yield event`
OnOtherEvent(e) ==
    /\ Receiving
    /\ e.type = "RUN_STARTED"
    /\ Yield(e, <<e>>)
    /\ UNCHANGED << toolVars, textVars, stateVars, command_tool_called >>

\* the inner stream ends: the loop is left and the generator returns
StreamEnd ==
    /\ status = "running"
    /\ status' = "closed"
    /\ UNCHANGED << inp, out, incoming_state, frontend_state, toolVars, textVars,
                    stateVars, command_tool_called, requestVars >>

(***************************************************************************)
(* Spec: a turn whose inner stream is any sequence of at most MaxEvents    *)
(* events of the whole alphabet.                                           *)
(***************************************************************************)
\* the inner stream of the turn has more events
More == Len(inp) < MaxEvents

Next ==
    \/ More /\ \E e \in SnapshotEvents : OnStateSnapshot(e)
    \/ More /\ \E e \in ToolStartEvents : OnToolCallStart(e)
    \/ More /\ \E e \in ToolArgsEvents : OnToolCallArgs(e)
    \/ More /\ \E e \in ToolEndEvents : OnToolCallEnd(e)
    \/ More /\ \E e \in ToolResultEvents : OnToolCallResult(e)
    \/ More /\ \E e \in TextStartEvents : OnTextMessageStart(e)
    \/ More /\ \E e \in TextContentEvents : OnTextMessageContent(e)
    \/ More /\ \E e \in TextEndEvents : OnTextMessageEnd(e)
    \/ More /\ OnRunFinished(RunFinishedEvent)
    \/ More /\ OnOtherEvent(RunStartedEvent)
    \/ StreamEnd

Spec == Init /\ [][Next]_vars

(***************************************************************************)
(* SpecText: a longer turn (MaxTextEvents events) whose inner stream       *)
(* carries the text message events of two messages together with the       *)
(* events of one tool call that bear on text: its start (command tool or   *)
(* not), its result (with or without activeFilter), a state snapshot, the  *)
(* run events.                                                             *)
(***************************************************************************)
TextTurnToolStarts == { ToolCallStartEvent("t1", nm) : nm \in ToolNames }

TextTurnToolResults == { ToolCallResultEvent("t1", c) : c \in ResultContents }

TextTurnSnapshots ==
    { StateSnapshotEvent(JDict([flights |-> JList(<<"f0">>), selectedRoute |-> JStr("AGENT")])) }

\* the inner stream of the turn has more events
MoreText == Len(inp) < MaxTextEvents

NextText ==
    \/ MoreText /\ \E e \in TextTurnSnapshots : OnStateSnapshot(e)
    \/ MoreText /\ \E e \in TextTurnToolStarts : OnToolCallStart(e)
    \/ MoreText /\ \E e \in TextTurnToolResults : OnToolCallResult(e)
    \/ MoreText /\ \E e \in TextStartEvents : OnTextMessageStart(e)
    \/ MoreText /\ \E e \in TextContentEvents : OnTextMessageContent(e)
    \/ MoreText /\ \E e \in TextEndEvents : OnTextMessageEnd(e)
    \/ MoreText /\ OnRunFinished(RunFinishedEvent)
    \/ MoreText /\ OnOtherEvent(RunStartedEvent)
    \/ StreamEnd

SpecText == Init /\ [][NextText]_vars

(***************************************************************************)
(* SpecState: a turn (MaxStateEvents events) whose inner stream carries    *)
(* what bears on the state snapshot: the agent's snapshots, one tool call  *)
(* (a command tool or filter_dashboard) with its arguments, its end and    *)
(* results with and without state-bearing fields, and RunFinished.         *)
(***************************************************************************)
StateTurnToolStarts == { ToolCallStartEvent("t1", nm) : nm \in ToolNames }

StateTurnToolArgs == { ToolCallArgsEvent("t1", d) : d \in {WholeArgs, NoFilterArgs} }

StateTurnToolEnds == { ToolCallEndEvent("t1") }

StateTurnResultContents ==
    { PlainContent, FlightsContent, EmptyFlightsContent, FilterContent, FilterOverContent }

StateTurnToolResults == { ToolCallResultEvent("t1", c) : c \in StateTurnResultContents }

\* the inner stream of the turn has more events
MoreState == Len(inp) < MaxStateEvents

NextState ==
    \/ MoreState /\ \E e \in SnapshotEvents : OnStateSnapshot(e)
    \/ MoreState /\ \E e \in StateTurnToolStarts : OnToolCallStart(e)
    \/ MoreState /\ \E e \in StateTurnToolArgs : OnToolCallArgs(e)
    \/ MoreState /\ \E e \in StateTurnToolEnds : OnToolCallEnd(e)
    \/ MoreState /\ \E e \in StateTurnToolResults : OnToolCallResult(e)
    \/ MoreState /\ OnRunFinished(RunFinishedEvent)
    \/ StreamEnd

SpecState == Init /\ [][NextState]_vars

(***************************************************************************)
(* SpecMalformed: a turn (MaxMalformedEvents events) whose inner stream    *)
(* carries, besides well-formed events of one tool call, events whose      *)
(* payload has a null or a value of another shape where the handlers       *)
(* expect a list or a map.                                                 *)
(***************************************************************************)
MalformedSnapshots == SnapshotEvents \cup { StateSnapshotEvent(JDict([flights |-> JNull])) }

MalformedToolArgs == { ToolCallArgsEvent("t1", d) : d \in {ArgsOpen, ListArgs} }

MalformedResultContents == { PlainContent, NullFlightsContent, TextFilterContent }

MalformedToolResults == { ToolCallResultEvent("t1", c) : c \in MalformedResultContents }

\* the inner stream of the turn has more events
MoreMalformed == Len(inp) < MaxMalformedEvents

NextMalformed ==
    \/ MoreMalformed /\ \E e \in MalformedSnapshots : OnStateSnapshot(e)
    \/ MoreMalformed /\ \E e \in StateTurnToolStarts : OnToolCallStart(e)
    \/ MoreMalformed /\ \E e \in MalformedToolArgs : OnToolCallArgs(e)
    \/ MoreMalformed /\ \E e \in StateTurnToolEnds : OnToolCallEnd(e)
    \/ MoreMalformed /\ \E e \in MalformedToolResults : OnToolCallResult(e)
    \/ MoreMalformed /\ OnRunFinished(RunFinishedEvent)
    \/ StreamEnd

SpecMalformed == Init /\ [][NextMalformed]_vars

(***************************************************************************)
(* SpecTurns: MaxRuns turns served one after the other by the one          *)
(* DeduplicatingOrchestrator the agent is built with.  The locals of run() *)
(* are new in every turn; self._tool_args_buffer is an attribute of the    *)
(* instance and is what the turn before left.  The inner stream of a turn  *)
(* carries the events of one tool call and RunFinished.                    *)
(***************************************************************************)
\* run() is called again after the turn before it is over
BeginNextRun ==
    /\ status \in {"closed", "raised"}
    /\ runs < MaxRuns
    /\ runs' = runs + 1
    /\ status' = "running"
    /\ inp' = << >>
    /\ out' = << >>
    /\ seen_tool_call_ids' = {}
    /\ completed_tool_call_ids' = {}
    /\ tool_call_names' = EmptyDict
    /\ command_tool_called' = FALSE
    /\ extracted_state' = EmptyDict
    /\ last_inner_state' = EmptyDict
    /\ pending_start_events' = EmptyDict
    /\ active_text_message_ids' = {}
    /\ current_active_filter' = InitialActiveFilter(incoming_state)
    /\ UNCHANGED << tool_args_buffer, incoming_state, frontend_state, agui_thread_id,
                    thread_response_store, input_messages, messages, upstream,
                    turns, binding >>

\* the inner stream of the turn has more events
MoreRunEvents == Len(inp) < MaxRunEvents

NextTurns ==
    \/ MoreRunEvents /\ \E e \in StateTurnToolStarts : OnToolCallStart(e)
    \/ MoreRunEvents /\ \E e \in StateTurnToolArgs : OnToolCallArgs(e)
    \/ MoreRunEvents /\ \E e \in StateTurnToolEnds : OnToolCallEnd(e)
    \/ MoreRunEvents /\ OnRunFinished(RunFinishedEvent)
    \/ StreamEnd
    \/ BeginNextRun

SpecTurns == Init /\ [][NextTurns]_vars

(***************************************************************************)
(* The message history of a request.  A message is a record of its role    *)
(* (lower case) and its contents; a content item is a text item, a         *)
(* FunctionCallContent or a FunctionResultContent.                         *)
(***************************************************************************)
TextContent(t) == [kind |-> "text", text |-> t]

FunctionCallContent(call_id, name) == [kind |-> "function_call", call_id |-> call_id, name |-> name]

FunctionResultContent(call_id) == [kind |-> "function_result", call_id |-> call_id]

ChatMessage(role, contents) == [role |-> role, contents |-> contents]

\* the elements of a sequence
Range(q) == { q[i] : i \in DOMAIN q }

\* getattr(c, 'call_id', None): "" stands for None
CallIdOf(c) == IF c.kind = "text" THEN "" ELSE c.call_id

\* first pass of _filter_frontend_tool_calls: the call ids of the frontend-only tool calls
FrontendToolCallIds(msgs) ==
    { c.call_id : c \in
        { x \in UNION { Range(msgs[i].contents) : i \in { j \in DOMAIN msgs : msgs[j].role = "assistant" } } :
            x.kind = "function_call" /\ x.name \in FRONTEND_ONLY_TOOLS /\ x.call_id # "" } }

\* has_frontend of an assistant message
HasFrontendCall(m, ids) ==
    \E c \in Range(m.contents) : c.kind = "function_call" /\ c.call_id # "" /\ c.call_id \in ids

\* has_backend of an assistant message
HasBackendCall(m, ids) ==
    \E c \in Range(m.contents) : c.kind = "function_call" /\ ~(c.call_id # "" /\ c.call_id \in ids)

\* new_contents: the contents without the frontend tool calls
WithoutFrontendCalls(m, ids) ==
    LET Kept(c) == ~(c.kind = "function_call" /\ CallIdOf(c) \in ids)
    IN  SelectSeq(m.contents, Kept)

\* fault: the second pass drops no message (C21 must notice)
DroppedAsFrontendNever(m, ids) == FALSE

\* the second pass of _filter_frontend_tool_calls skips the message
DroppedAsFrontend(m, ids) ==
    CASE m.role = "tool" ->
            \E c \in Range(m.contents) : CallIdOf(c) # "" /\ CallIdOf(c) \in ids
      [] m.role = "assistant" ->
            /\ HasFrontendCall(m, ids)
            /\ (~HasBackendCall(m, ids) \/ WithoutFrontendCalls(m, ids) = << >>)
      [] OTHER -> FALSE

\* the message as the second pass appends it: an assistant message that mixes
\* frontend and backend tool calls gets its contents replaced
Reconstructed(m, ids) ==
    IF m.role = "assistant" /\ HasFrontendCall(m, ids) /\ HasBackendCall(m, ids)
    THEN [m EXCEPT !.contents = WithoutFrontendCalls(m, ids)]
    ELSE m

\* context.messages after _filter_frontend_tool_calls
FilterFrontendToolCalls(msgs) ==
    LET ids == FrontendToolCallIds(msgs)
        Kept(m) == ~DroppedAsFrontend(m, ids)
        kept == SelectSeq(msgs, Kept)
    IN  IF msgs = << >> \/ ids = {}
        THEN msgs
        ELSE [i \in DOMAIN kept |-> Reconstructed(kept[i], ids)]

\* has_tool_related of _filter_messages_for_fresh_start
HasToolRelated(m) ==
    \E c \in Range(m.contents) :
        c.kind \in {"function_call", "function_result"} \/ CallIdOf(c) # ""

\* fault: only the tool-role messages are pruned on a fresh start (C18 must notice)
KeptForFreshStartKeepingCalls(m) == m.role # "tool"

\* _filter_messages_for_fresh_start keeps the message
KeptForFreshStart(m) ==
    CASE m.role = "user" -> TRUE
      [] m.role = "tool" -> FALSE
      [] m.role = "assistant" -> ~HasToolRelated(m)
      [] OTHER -> TRUE

\* context.messages after _filter_messages_for_fresh_start
FilterMessagesForFreshStart(msgs, thread_id, store) ==
    IF thread_id # "" /\ thread_id \in DOMAIN store
    THEN msgs
    ELSE SelectSeq(msgs, KeptForFreshStart)

\* _is_frontend_tool_result_only: the last message is the result of a frontend-only tool call
IsFrontendToolResultOnly(msgs) ==
    /\ msgs # << >>
    /\ msgs[Len(msgs)].role = "tool"
    /\ \E c \in Range(msgs[Len(msgs)].contents) :
          /\ c.kind = "function_result"
          /\ c.call_id # ""
          /\ \E i \in DOMAIN msgs :
                /\ msgs[i].role = "assistant"
                /\ \E c2 \in Range(msgs[i].contents) :
                      /\ c2.kind = "function_call"
                      /\ c2.call_id = c.call_id
                      /\ c2.name \in FRONTEND_ONLY_TOOLS

\* last_input_idx of _filter_messages_for_api, 0 when there is no user or tool message
LastInputIndex(msgs) ==
    LET inputs == { i \in DOMAIN msgs : msgs[i].role \in {"user", "tool"} }
    IN  IF inputs = {} THEN 0 ELSE CHOOSE i \in inputs : \A j \in inputs : j <= i

\* context.messages after ResponsesApiThreadMiddleware._filter_messages_for_api
FilterMessagesForApi(msgs) ==
    IF LastInputIndex(msgs) = 0
    THEN msgs
    ELSE SubSeq(msgs, LastInputIndex(msgs), Len(msgs))

(***************************************************************************)
(* SpecRequest: a request from its arrival.  run() takes the fast path or  *)
(* shapes the history and sets up the turn; the chat middleware then       *)
(* passes the history on to the backend (the agent framework hands the     *)
(* middleware the history run() left in the context).                      *)
(***************************************************************************)
UserMessage == ChatMessage("user", <<TextContent("q")>>)

AssistantText == ChatMessage("assistant", <<TextContent("a")>>)

AssistantFrontendCall ==
    ChatMessage("assistant", <<FunctionCallContent("c1", "filter_dashboard")>>)

AssistantBackendCall ==
    ChatMessage("assistant", <<FunctionCallContent("c2", "fetch_flights")>>)

AssistantTextAndFrontendCall ==
    ChatMessage("assistant", <<TextContent("a"), FunctionCallContent("c1", "filter_dashboard")>>)

AssistantMixedCalls ==
    ChatMessage("assistant", <<TextContent("a"), FunctionCallContent("c1", "filter_dashboard"),
                               FunctionCallContent("c2", "fetch_flights")>>)

FrontendToolResult == ChatMessage("tool", <<FunctionResultContent("c1")>>)

BackendToolResult == ChatMessage("tool", <<FunctionResultContent("c2")>>)

SystemMessage == ChatMessage("system", <<TextContent("s")>>)

HistoryMessages ==
    { UserMessage, AssistantText, AssistantFrontendCall, AssistantBackendCall,
      AssistantTextAndFrontendCall, AssistantMixedCalls, FrontendToolResult,
      BackendToolResult, SystemMessage }

\* the histories of at most MaxMessages messages
Histories == UNION { [1..n -> HistoryMessages] : n \in 0..MaxMessages }

ThreadIds == {"th1", "th2"}

\* the thread store when the request arrives: empty, holding a token for th1, or
\* holding one for each thread
Stores == { EmptyDict, [th1 |-> "resp_1"], [th1 |-> "resp_1", th2 |-> "resp_2"] }

\* the client's state: none, a selected route, an active filter that carries the sentinel
RequestStates ==
    { EmptyDict,
      [selectedRoute |-> JStr("SFO -> ORD")],
      [activeFilter |-> JDict([routeFrom |-> JStr("LAX"), utilizationType |-> JStr(KEEP)])] }

InitRequest ==
    /\ status = "request"
    /\ inp = << >>
    /\ out = << >>
    /\ incoming_state \in RequestStates
    /\ seen_tool_call_ids = {}
    /\ completed_tool_call_ids = {}
    /\ tool_call_names = EmptyDict
    /\ command_tool_called = FALSE
    /\ extracted_state = EmptyDict
    /\ last_inner_state = EmptyDict
    /\ frontend_state = EmptyDict
    /\ pending_start_events = EmptyDict
    /\ active_text_message_ids = {}
    /\ tool_args_buffer = EmptyDict
    /\ current_active_filter = JNull
    /\ agui_thread_id \in ThreadIds
    /\ thread_response_store \in Stores
    /\ input_messages \in Histories
    /\ messages = input_messages
    /\ upstream = << >>
    /\ turns = << >>
    /\ binding = << >>
    /\ runs = 1

\* the events of the fast path
FastPathRunStarted == [type |-> "RUN_STARTED", run_id |-> "frontend-action-complete"]

FastPathRunFinished == [type |-> "RUN_FINISHED", run_id |-> "frontend-action-complete"]

\* fault: the fast path leaves the client's state out (C22 must notice)
FastPathChunkWithoutSnapshot(incoming) == << FastPathRunStarted, FastPathRunFinished >>

\* what the fast path yields: the incoming state goes out as it came in
FastPathChunk(incoming) ==
    <<FastPathRunStarted>>
        \o (IF incoming # EmptyDict THEN <<StateSnapshotEvent(JDict(incoming))>> ELSE << >>)
        \o <<FastPathRunFinished>>

\* fault: the fast path empties the store (C30 must notice)
FastPathStoreCleared(store, thread) == EmptyDict

\* the store after `del thread_response_store[agui_thread_id]` of the fast path
FastPathStore(store, thread) == DictDel(store, thread)

\* run() when the last message is the result of a frontend-only tool: no backend call
RunFastPath ==
    /\ status = "request"
    /\ IsFrontendToolResultOnly(messages)
    /\ thread_response_store' = FastPathStore(thread_response_store, agui_thread_id)
    /\ out' = Append(out, FastPathChunk(incoming_state))
    /\ status' = "closed"
    /\ UNCHANGED << inp, incoming_state, frontend_state, agui_thread_id, input_messages,
                    messages, upstream, sessionVars,
                    toolVars, textVars, stateVars, command_tool_called >>

\* is_continuation
IsContinuation == agui_thread_id # "" /\ agui_thread_id \in DOMAIN thread_response_store

\* run() up to the loop: the history is shaped, the locals are set up
RunSetup ==
    /\ status = "request"
    /\ ~IsFrontendToolResultOnly(messages)
    /\ messages' = FilterMessagesForFreshStart(FilterFrontendToolCalls(messages),
                                               agui_thread_id, thread_response_store)
    /\ frontend_state' = FrontendState(incoming_state)
    /\ current_active_filter' =
           IF "activeFilter" \in DOMAIN incoming_state /\ Truthy(incoming_state["activeFilter"])
           THEN InitialActiveFilter(incoming_state)
           ELSE current_active_filter
    /\ status' = "running"
    /\ UNCHANGED << inp, out, incoming_state, agui_thread_id, thread_response_store,
                    input_messages, upstream, sessionVars,
                    toolVars, textVars, extracted_state, last_inner_state,
                    command_tool_called >>

\* ResponsesApiThreadMiddleware.process up to `await next(context)`: the request
\* that reaches the backend
Process ==
    /\ status = "running"
    /\ Len(upstream) < MaxCalls
    /\ upstream' = Append(upstream,
           [conversation_id |-> IF IsContinuation
                                THEN JStr(thread_response_store[agui_thread_id])
                                ELSE JNull,
            messages |-> IF IsContinuation THEN FilterMessagesForApi(messages) ELSE messages])
    /\ UNCHANGED << status, inp, out, incoming_state, frontend_state, agui_thread_id,
                    thread_response_store, input_messages, messages, sessionVars,
                    toolVars, textVars, stateVars, command_tool_called >>

NextRequest ==
    \/ RunFastPath
    \/ RunSetup
    \/ Process
    \/ StreamEnd

SpecRequest == InitRequest /\ [][NextRequest]_vars

(***************************************************************************)
(* Turns over the shared _thread_response_store.  A step is what a turn    *)
(* does between two points at which it is suspended (a yield to its        *)
(* consumer, or an await of the backend).  A turn is run() of one request: *)
(* the fast path, or the set-up followed by the backend calls the agent    *)
(* framework makes through ResponsesApiThreadMiddleware, each answered by  *)
(* a stream of updates that _capture_response_id watches, or by an error.  *)
(* Every turn runs in its own asyncio task, hence in its own context for   *)
(* the ContextVar.  The record of a turn holds its locals, which are       *)
(* dropped when the turn ends, and what the properties need of its past:   *)
(* began_with is the token the store held for its conversation when it     *)
(* began ("" for none), after_fast whether it follows a fast-path turn.    *)
(***************************************************************************)
Turns == 1..MaxTurns

\* fault: all turns run in one context (C29 must notice)
ContextOfShared(t) == 1

\* the context in which turn t runs: its own
ContextOf(t) == t

\* the tokens the backend hands out in the streams of turn t
RespToken(t) == "resp_" \o ToString(t)

ConvToken(t) == "conv_" \o ToString(t)

\* an id of another API, which is no continuation token
OtherToken == "chatcmpl_1"

\* fault: every token is stored, whatever its prefix (C37 must notice)
HasTokenPrefixAny(tok) == tok # ""

\* last_response_id.startswith(("resp_", "conv_")), on the tokens of the model
HasTokenPrefix(tok) == tok # "" /\ tok # OtherToken

\* the ChatResponseUpdates the backend can send in a stream of turn t
Updates(t) ==
    { [response_id |-> RespToken(t), conversation_id |-> ""],
      [response_id |-> RespToken(t), conversation_id |-> ConvToken(t)],
      [response_id |-> OtherToken, conversation_id |-> ""],
      [response_id |-> "", conversation_id |-> ""] }

\* the updates of the turns of SpecSession
SessionUpdates(t) == { [response_id |-> RespToken(t), conversation_id |-> ""] }

IdleTurn ==
    [pc |-> "idle", thread |-> "", fast |-> FALSE, token |-> "", after_fast |-> FALSE,
     began_with |-> "", is_continuation |-> FALSE, agui |-> "",
     passed |-> << >>, streamed |-> << >>, last_response_id |-> ""]

\* the record of a turn that is over, however it ended: its locals are gone
EndedTurn(turn) ==
    [IdleTurn EXCEPT !.pc = "over", !.thread = turn.thread, !.fast = turn.fast,
                     !.token = turn.token]

InitSession ==
    /\ status = "session"
    /\ inp = << >>
    /\ out = << >>
    /\ incoming_state = EmptyDict
    /\ seen_tool_call_ids = {}
    /\ completed_tool_call_ids = {}
    /\ tool_call_names = EmptyDict
    /\ command_tool_called = FALSE
    /\ extracted_state = EmptyDict
    /\ last_inner_state = EmptyDict
    /\ frontend_state = EmptyDict
    /\ pending_start_events = EmptyDict
    /\ active_text_message_ids = {}
    /\ tool_args_buffer = EmptyDict
    /\ current_active_filter = JNull
    /\ agui_thread_id = ""
    /\ thread_response_store \in { EmptyDict, [th1 |-> "resp_0"] }
    /\ input_messages = << >>
    /\ messages = << >>
    /\ upstream = << >>
    /\ turns = [t \in Turns |-> IdleTurn]
    /\ binding = [c \in Turns |-> ""]
    /\ runs = 0

\* what a step of a turn leaves alone
SessionFrame ==
    UNCHANGED << status, inp, out, incoming_state, frontend_state, agui_thread_id,
                 input_messages, messages, upstream, toolVars, textVars, stateVars,
                 command_tool_called, runs >>

\* the turn is over
Ended(t) == turns[t].pc = "over"

\* the turns of the conversation that began before turn t
EarlierTurns(t, thread) == { u \in 1..(t - 1) : turns[u].thread = thread }

\* the turn of the conversation that began last before turn t was a fast-path turn
\* and it is over
FollowsFastPath(t, thread) ==
    /\ EarlierTurns(t, thread) # {}
    /\ LET y == CHOOSE u \in EarlierTurns(t, thread) : \A w \in EarlierTurns(t, thread) : w <= u
       IN  turns[y].fast /\ turns[y].pc = "over"

\* current_agui_thread_id.reset(token) of the finally clause of run()
ResetBinding(t) == binding' = [binding EXCEPT ![ContextOf(t)] = turns[t].token]

\* run() from its first line to its first suspension: the binding is set; the fast
\* path deletes the store entry and yields RunStarted; a normal turn decides
\* is_continuation and shapes the history
BeginTurn(t, thread, fast) ==
    /\ turns[t].pc = "idle"
    /\ binding' = [binding EXCEPT ![ContextOf(t)] = thread]
    /\ thread_response_store' =
           IF fast THEN FastPathStore(thread_response_store, thread)
           ELSE thread_response_store
    /\ turns' = [turns EXCEPT ![t] =
           [@ EXCEPT !.pc = IF fast THEN "fast_started" ELSE "ready",
                     !.thread = thread,
                     !.fast = fast,
                     !.token = binding[ContextOf(t)],
                     !.after_fast = FollowsFastPath(t, thread),
                     !.began_with = DictGet(thread_response_store, thread, ""),
                     !.is_continuation = ~fast /\ thread \in DOMAIN thread_response_store]]
    /\ SessionFrame

\* the fast path from RunStarted to its return
FinishFastPath(t) ==
    /\ turns[t].pc = "fast_started"
    /\ turns' = [turns EXCEPT ![t] = EndedTurn(@)]
    /\ ResetBinding(t)
    /\ UNCHANGED thread_response_store
    /\ SessionFrame

\* ResponsesApiThreadMiddleware.process up to `await next(context)`; the call is
\* a streaming one (the turn then awaits the stream) or not (it awaits the response)
ProcessCall(t, is_streaming) ==
    /\ turns[t].pc = "ready"
    /\ LET id == binding[ContextOf(t)]
           continuing == id # "" /\ id \in DOMAIN thread_response_store
       IN  turns' = [turns EXCEPT ![t] =
               [@ EXCEPT !.pc = IF is_streaming THEN "awaiting" ELSE "calling",
                         !.agui = id,
                         !.passed = Append(@,
                             [thread |-> id,
                              conversation_id |->
                                  IF continuing THEN thread_response_store[id] ELSE "",
                              trimmed |-> continuing]),
                         !.streamed = << >>,
                         !.last_response_id = ""]]
    /\ UNCHANGED << thread_response_store, binding >>
    /\ SessionFrame

\* the backend rejects the continuation token or reports a missing tool output: the
\* error leaves process() and run(), whose finally clause runs
BackendRejects(t) ==
    /\ turns[t].pc = "awaiting"
    /\ turns[t].passed[Len(turns[t].passed)].conversation_id # ""
    /\ turns' = [turns EXCEPT ![t] = EndedTurn(@)]
    /\ ResetBinding(t)
    /\ UNCHANGED thread_response_store
    /\ SessionFrame

\* fault: the response_id of an update wins over its conversation_id (C24 must notice)
NextLastResponseIdOfResponse(last, update) ==
    IF update.response_id # "" THEN update.response_id
    ELSE IF update.conversation_id # "" THEN update.conversation_id
    ELSE last

\* last_response_id after one iteration of the loop of _capture_response_id
NextLastResponseId(last, update) ==
    IF update.conversation_id # "" THEN update.conversation_id
    ELSE IF update.response_id # "" THEN update.response_id
    ELSE last

\* one iteration of the loop of _capture_response_id: the update is passed on
StreamUpdate(t, update) ==
    /\ turns[t].pc \in {"awaiting", "streaming"}
    /\ turns' = [turns EXCEPT ![t] =
           [@ EXCEPT !.pc = "streaming",
                     !.streamed = Append(@, update),
                     !.last_response_id = NextLastResponseId(@, update)]]
    /\ UNCHANGED << thread_response_store, binding >>
    /\ SessionFrame

\* the stream ends: _capture_response_id stores the token
StreamCompletes(t) ==
    /\ turns[t].pc \in {"awaiting", "streaming"}
    /\ thread_response_store' =
           IF turns[t].agui # "" /\ HasTokenPrefix(turns[t].last_response_id)
           THEN DictSet(thread_response_store, turns[t].agui, turns[t].last_response_id)
           ELSE thread_response_store
    /\ turns' = [turns EXCEPT ![t].pc = "ready"]
    /\ UNCHANGED binding
    /\ SessionFrame

\* _extract_response_id of a ChatResponse: result.response_id or result.conversation_id
ExtractResponseId(response) ==
    IF response.response_id # "" THEN response.response_id ELSE response.conversation_id

\* the backend answers a call that is not a streaming one: process() stores the token
\* of the response and returns
ResponseArrives(t, response) ==
    /\ turns[t].pc = "calling"
    /\ thread_response_store' =
           IF turns[t].agui # "" /\ HasTokenPrefix(ExtractResponseId(response))
           THEN DictSet(thread_response_store, turns[t].agui, ExtractResponseId(response))
           ELSE thread_response_store
    /\ turns' = [turns EXCEPT ![t].pc = "ready"]
    /\ UNCHANGED binding
    /\ SessionFrame

\* the inner stream of the turn ends after its last backend call
FinishTurn(t) ==
    /\ turns[t].pc = "ready"
    /\ turns[t].passed # << >>
    /\ turns' = [turns EXCEPT ![t] = EndedTurn(@)]
    /\ ResetBinding(t)
    /\ UNCHANGED thread_response_store
    /\ SessionFrame

\* the consumer stops reading while run() is suspended at a yield: the generators
\* are closed, the finally clause of run() runs, nothing else does
CancelTurn(t) ==
    /\ \/ turns[t].pc \in {"fast_started", "streaming"}
       \/ turns[t].pc = "ready" /\ turns[t].passed # << >>
    /\ turns' = [turns EXCEPT ![t] = EndedTurn(@)]
    /\ ResetBinding(t)
    /\ UNCHANGED thread_response_store
    /\ SessionFrame

(***************************************************************************)
(* SpecSession: MaxTurns turns that run concurrently, in any interleaving; *)
(* a turn makes one backend call, answered by an error or by a stream of   *)
(* at most one update.                                                     *)
(***************************************************************************)
\* turns are numbered in the order in which they begin
MayBegin(t) == IF t = 1 THEN TRUE ELSE turns[t - 1].pc # "idle"

MoreCalls(t) == turns[t].passed = << >>

MoreUpdates(t) == turns[t].streamed = << >>

NextSession ==
    \/ \E t \in Turns, thread \in ThreadIds, fast \in BOOLEAN :
          MayBegin(t) /\ BeginTurn(t, thread, fast)
    \/ \E t \in Turns : FinishFastPath(t)
    \/ \E t \in Turns : MoreCalls(t) /\ ProcessCall(t, TRUE)
    \/ \E t \in Turns : BackendRejects(t)
    \/ \E t \in Turns : \E update \in SessionUpdates(t) : MoreUpdates(t) /\ StreamUpdate(t, update)
    \/ \E t \in Turns : StreamCompletes(t)
    \/ \E t \in Turns : FinishTurn(t)
    \/ \E t \in Turns : CancelTurn(t)

SpecSession == InitSession /\ [][NextSession]_vars

(***************************************************************************)
(* SpecCapture: MaxCaptureTurns turns, one after the other; a turn makes   *)
(* at most MaxCaptureCalls backend calls, answered by streams of at most   *)
(* MaxUpdates updates of every kind, or by one response when the call is   *)
(* not a streaming one (a response has the two id fields of an update).    *)
(***************************************************************************)
\* a turn begins when the one before it is over
MayBeginAfter(t) == t <= MaxCaptureTurns /\ (IF t = 1 THEN TRUE ELSE Ended(t - 1))

MoreCaptureCalls(t) == Len(turns[t].passed) < MaxCaptureCalls

MoreCaptureUpdates(t) == Len(turns[t].streamed) < MaxUpdates

NextCapture ==
    \/ \E t \in Turns, thread \in ThreadIds, fast \in BOOLEAN :
          MayBeginAfter(t) /\ BeginTurn(t, thread, fast)
    \/ \E t \in Turns : FinishFastPath(t)
    \/ \E t \in Turns, is_streaming \in BOOLEAN :
          MoreCaptureCalls(t) /\ ProcessCall(t, is_streaming)
    \/ \E t \in Turns : BackendRejects(t)
    \/ \E t \in Turns : \E update \in Updates(t) : MoreCaptureUpdates(t) /\ StreamUpdate(t, update)
    \/ \E t \in Turns : StreamCompletes(t)
    \/ \E t \in Turns : \E response \in Updates(t) : ResponseArrives(t, response)
    \/ \E t \in Turns : FinishTurn(t)
    \/ \E t \in Turns : CancelTurn(t)

SpecCapture == InitSession /\ [][NextCapture]_vars

(***************************************************************************)
(* Vocabulary of the properties.                                           *)
(***************************************************************************)
\* the event received last and what was yielded for it
LastEvent == inp[Len(inp)]

LastChunk == out[Len(out)]

IsToolCallStart(e, id) == e.type = "TOOL_CALL_START" /\ e.tool_call_id = id

IsToolCallArgs(e, id) == e.type = "TOOL_CALL_ARGS" /\ e.tool_call_id = id

IsToolCallEnd(e, id) == e.type = "TOOL_CALL_END" /\ e.tool_call_id = id

IsToolCallResult(e, id) == e.type = "TOOL_CALL_RESULT" /\ e.tool_call_id = id

IsTextStart(e, m) == e.type = "TEXT_MESSAGE_START" /\ e.message_id = m

IsTextContent(e, m) == e.type = "TEXT_MESSAGE_CONTENT" /\ e.message_id = m

IsTextEnd(e, m) == e.type = "TEXT_MESSAGE_END" /\ e.message_id = m

IsStateSnapshot(e) == e.type = "STATE_SNAPSHOT"

\* the positions of a sequence whose event satisfies P
Positions(seq, P(_)) == { i \in DOMAIN seq : P(seq[i]) }

\* a step of the loop: one more event was received
Received == Len(inp') = Len(inp) + 1

\* the event received in this step and what was yielded for it
ThisEvent == inp'[Len(inp')]

ThisChunk == out'[Len(out')]

(***************************************************************************)
(* C1: within one turn, for every toolCallId for which the upstream        *)
(* emitted one or more ToolCallStart events, the output stream holds       *)
(* exactly one ToolCallStart with that id.                                 *)
(***************************************************************************)
C1_OneToolCallStartPerId ==
    \A id \in ToolCallIds :
        (\E i \in DOMAIN inp : IsToolCallStart(inp[i], id))
            => (LET IsStart(e) == IsToolCallStart(e, id)
                IN  Cardinality(Positions(Output, IsStart)) = 1)

\* two ToolCallStart for t1 with the start of another call between them: one is forwarded
C1_Witness ==
    /\ Len(inp) = 3
    /\ IsToolCallStart(inp[1], "t1")
    /\ IsToolCallStart(inp[2], "t2")
    /\ IsToolCallStart(inp[3], "t1")
    /\ out = << <<inp[1]>>, <<inp[2]>>, << >> >>

(***************************************************************************)
(* C6: a ToolCallArgs, ToolCallEnd or ToolCallResult whose toolCallId has  *)
(* had no ToolCallStart earlier in the turn is dropped, and every such     *)
(* event of the output is preceded in the output by a ToolCallStart with   *)
(* the same id.                                                            *)
(***************************************************************************)
IsToolCallFollowUp(e) == e.type \in {"TOOL_CALL_ARGS", "TOOL_CALL_END", "TOOL_CALL_RESULT"}

C6_OrphanToolEventsDropped ==
    /\ \A i \in DOMAIN inp :
          (/\ IsToolCallFollowUp(inp[i])
           /\ ~\E h \in 1..(i - 1) : IsToolCallStart(inp[h], inp[i].tool_call_id))
              => out[i] = << >>
    /\ \A j \in DOMAIN Output :
          IsToolCallFollowUp(Output[j])
              => \E h \in 1..(j - 1) : IsToolCallStart(Output[h], Output[j].tool_call_id)

\* a result for the unknown t1 is dropped; after its start the same result is forwarded
C6_Witness ==
    /\ Len(inp) = 3
    /\ inp[1] = ToolCallResultEvent("t1", PlainContent)
    /\ IsToolCallStart(inp[2], "t1")
    /\ inp[3] = inp[1]
    /\ out = << << >>, <<inp[2]>>, <<inp[3]>> >>

(***************************************************************************)
(* C7: after a ToolCallEnd for a toolCallId was accepted, every later      *)
(* ToolCallArgs and ToolCallEnd for that id is dropped: the output holds   *)
(* at most one ToolCallEnd per id and no ToolCallArgs of the id after it.  *)
(***************************************************************************)
C7_NothingAfterToolCallEnd ==
    \A id \in ToolCallIds :
        /\ \A i \in DOMAIN inp : \A j \in (i + 1)..Len(inp) :
              (/\ \E h \in DOMAIN out[i] : IsToolCallEnd(out[i][h], id)
               /\ (IsToolCallArgs(inp[j], id) \/ IsToolCallEnd(inp[j], id)))
                  => out[j] = << >>
        /\ \A i \in DOMAIN Output :
              IsToolCallEnd(Output[i], id)
                  => \A j \in (i + 1)..Len(Output) :
                        ~IsToolCallArgs(Output[j], id) /\ ~IsToolCallEnd(Output[j], id)

\* the call t1 is started and ended; the ToolCallArgs that follows is dropped
C7_Witness ==
    /\ Len(inp) = 3
    /\ IsToolCallStart(inp[1], "t1")
    /\ inp[2] = ToolCallEndEvent("t1")
    /\ IsToolCallArgs(inp[3], "t1")
    /\ out = << <<inp[1]>>, <<inp[2]>>, << >> >>

(***************************************************************************)
(* C8: each tool call advances only along Unseen -> Started -> Ended ->    *)
(* Resulted: in the output a ToolCallResult of an id comes only after the  *)
(* ToolCallEnd of that id, and at most once.                               *)
(***************************************************************************)
C8_LinearToolCallLifecycle ==
    \A id \in ToolCallIds :
        LET IsResult(e) == IsToolCallResult(e, id)
        IN  /\ Cardinality(Positions(Output, IsResult)) <= 1
            /\ \A j \in Positions(Output, IsResult) :
                  \E h \in 1..(j - 1) : IsToolCallEnd(Output[h], id)

(***************************************************************************)
(* C2 as stated: a TextStart(m) is never emitted when it arrives; it is    *)
(* held until the first TextDelta(m) arrives, and at that point the        *)
(* output holds the held TextStart(m) immediately followed by that         *)
(* TextDelta(m).                                                           *)
(***************************************************************************)
C2_HeldStartEmittedWithFirstDelta ==
    [][ Received =>
          /\ ThisEvent.type = "TEXT_MESSAGE_START" => ThisChunk = << >>
          /\ \A m \in MessageIds :
                (IsTextContent(ThisEvent, m) /\ m \in DOMAIN pending_start_events)
                    => ThisChunk = << pending_start_events[m], ThisEvent >>
      ]_vars

(***************************************************************************)
(* C2 amended: a TextStart(m) is never emitted when it arrives; it is held *)
(* until the first TextDelta(m) that arrives while text is not suppressed, *)
(* and at that point the output holds the held TextStart(m) immediately    *)
(* followed by that TextDelta(m).  A TextDelta(m) that arrives while text  *)
(* is suppressed is dropped and leaves the TextStart(m) held.  A TextStart *)
(* is emitted in no other way.                                             *)
(***************************************************************************)
C2_HeldStartEmittedWithFirstUnsuppressedDelta ==
    [][ Received =>
          /\ ThisEvent.type = "TEXT_MESSAGE_START" => ThisChunk = << >>
          /\ \A m \in MessageIds :
                (IsTextContent(ThisEvent, m) /\ m \in DOMAIN pending_start_events)
                    => IF command_tool_called
                       THEN /\ ThisChunk = << >>
                            /\ pending_start_events' = pending_start_events
                       ELSE /\ ThisChunk = << pending_start_events[m], ThisEvent >>
                            /\ m \notin DOMAIN pending_start_events'
          /\ \A h \in DOMAIN ThisChunk :
                ThisChunk[h].type = "TEXT_MESSAGE_START"
                    => /\ ThisChunk = << TextMessageStartEvent(ThisChunk[h].message_id),
                                        ThisEvent >>
                       /\ IsTextContent(ThisEvent, ThisChunk[h].message_id)
      ]_vars

\* TextStart(m1) is held over another event and comes out with the first TextDelta(m1)
C2_Witness ==
    /\ Len(inp) = 3
    /\ inp[1] = TextMessageStartEvent("m1")
    /\ inp[2] = TextMessageStartEvent("m2")
    /\ inp[3] = TextMessageContentEvent("m1", "x")
    /\ out = << << >>, << >>, << inp[1], inp[3] >> >>

(***************************************************************************)
(* C3: a message whose TextStart(m) was taken in and that gets TextEnd(m)  *)
(* or RunFinished before any TextDelta(m) is a phantom: nothing is yielded *)
(* for it, whatever was interleaved, and the output of a turn holds no     *)
(* TextStart(m) and no TextEnd(m) for a message id m for which the         *)
(* upstream sent no TextDelta(m).                                          *)
(***************************************************************************)
IsTextStartOrEnd(e, m) == IsTextStart(e, m) \/ IsTextEnd(e, m)

NoStartOrEndWithoutDelta ==
    \A m \in MessageIds :
        (~\E i \in DOMAIN inp : IsTextContent(inp[i], m))
            => ~\E j \in DOMAIN Output : IsTextStartOrEnd(Output[j], m)

C3_PhantomMessageSuppressed ==
    [][ Received =>
          /\ \A m \in DOMAIN pending_start_events :
                (IsTextEnd(ThisEvent, m) \/ ThisEvent.type = "RUN_FINISHED")
                    => /\ ~\E h \in DOMAIN ThisChunk : IsTextStartOrEnd(ThisChunk[h], m)
                       /\ m \notin DOMAIN pending_start_events'
                       /\ m \notin active_text_message_ids'
          /\ NoStartOrEndWithoutDelta'
      ]_vars

\* TextStart(m1), an interleaved forwarded event, TextEnd(m1), RunFinished: nothing for m1
C3_Witness ==
    /\ Len(inp) = 4
    /\ inp[1] = TextMessageStartEvent("m1")
    /\ inp[2] = RunStartedEvent
    /\ inp[3] = TextMessageEndEvent("m1")
    /\ inp[4] = RunFinishedEvent
    /\ out[1] = << >> /\ out[2] = <<RunStartedEvent>> /\ out[3] = << >>
    /\ Len(out[4]) = 2 /\ IsStateSnapshot(out[4][1]) /\ out[4][2] = RunFinishedEvent

(***************************************************************************)
(* C4: when RunFinished arrives, for every message that is still active a  *)
(* synthetic TextEnd is emitted (once) before the RunFinished event is     *)
(* forwarded, and every still-buffered message is discarded without any    *)
(* event being emitted for it.                                             *)
(***************************************************************************)
C4_RunFinishedClosesActiveDropsBuffered ==
    [][ (Received /\ ThisEvent.type = "RUN_FINISHED") =>
          /\ ThisChunk[Len(ThisChunk)] = ThisEvent
          /\ \A m \in MessageIds :
                LET IsEnd(e) == IsTextEnd(e, m)
                    IsAbout(e) == IsTextStart(e, m) \/ IsTextContent(e, m) \/ IsTextEnd(e, m)
                IN  /\ m \in active_text_message_ids
                        => /\ Cardinality(Positions(ThisChunk, IsEnd)) = 1
                           /\ Positions(ThisChunk, IsEnd) \subseteq 1..(Len(ThisChunk) - 1)
                    /\ m \notin active_text_message_ids
                        => Positions(ThisChunk, IsAbout) = {}
          /\ pending_start_events' = EmptyDict
          /\ active_text_message_ids' = {}
      ]_vars

\* m1 is active and m2 is buffered when RunFinished arrives
C4_Witness ==
    /\ Len(inp) = 4
    /\ inp[1] = TextMessageStartEvent("m1")
    /\ inp[2] = TextMessageContentEvent("m1", "x")
    /\ inp[3] = TextMessageStartEvent("m2")
    /\ inp[4] = RunFinishedEvent
    /\ Len(out[4]) = 3
    /\ out[4][1] = TextMessageEndEvent("m1")
    /\ IsStateSnapshot(out[4][2])
    /\ out[4][3] = RunFinishedEvent
    /\ pending_start_events = EmptyDict

(***************************************************************************)
(* C5: once a ToolCallStart for a dashboard command tool (fetch_flights,   *)
(* clear_filter) has been taken in (forwarded) in a turn, no TextStart or  *)
(* TextDelta that arrives later in the turn appears in the output, and     *)
(* such a TextStart is not buffered either.                                *)
(***************************************************************************)
IsCommandToolStart(e) == e.type = "TOOL_CALL_START" /\ e.tool_call_name \in COMMAND_TOOLS

IsTextStartOrContent(e) == e.type \in {"TEXT_MESSAGE_START", "TEXT_MESSAGE_CONTENT"}

\* a command tool's ToolCallStart was forwarded earlier in the turn
CommandToolStarted == \E i \in DOMAIN out : Positions(out[i], IsCommandToolStart) # {}

C5_NoTextAfterCommandTool ==
    [][ (Received /\ CommandToolStarted) =>
          /\ Positions(ThisChunk, IsTextStartOrContent) = {}
          /\ IsTextStartOrContent(ThisEvent)
                => /\ ThisChunk = << >>
                   /\ pending_start_events' = pending_start_events
                   /\ active_text_message_ids' = active_text_message_ids
      ]_vars

\* after fetch_flights started, TextStart(m1) is neither emitted nor buffered, TextDelta(m1) dropped
C5_Witness ==
    /\ Len(inp) = 3
    /\ inp[1] = ToolCallStartEvent("t1", "fetch_flights")
    /\ inp[2] = TextMessageStartEvent("m1")
    /\ inp[3] = TextMessageContentEvent("m1", "x")
    /\ out = << <<inp[1]>>, << >>, << >> >>
    /\ pending_start_events = EmptyDict

(***************************************************************************)
(* C9: for every messageId m the text events for m in the output are well  *)
(* nested: a TextDelta(m) or TextEnd(m) is emitted only while m is open    *)
(* (after an emitted TextStart(m) with no emitted TextEnd(m) since) and a  *)
(* TextStart(m) only while m is not open; a TextDelta(m) or TextEnd(m)     *)
(* arriving while m is neither buffered nor active is dropped, and a       *)
(* TextStart(m) arriving while m is buffered or active is dropped.         *)
(***************************************************************************)
\* m is open in seq just before position j
OpenBefore(seq, j, m) ==
    \E h \in 1..(j - 1) :
        /\ IsTextStart(seq[h], m)
        /\ \A g \in (h + 1)..(j - 1) : ~IsTextEnd(seq[g], m)

TextWellNested ==
    \A m \in MessageIds :
        /\ \A j \in DOMAIN Output :
              /\ (IsTextContent(Output[j], m) \/ IsTextEnd(Output[j], m))
                    => OpenBefore(Output, j, m)
              /\ IsTextStart(Output[j], m) => ~OpenBefore(Output, j, m)
        /\ m \in active_text_message_ids <=> OpenBefore(Output, Len(Output) + 1, m)

C9_TextEventsWellNested ==
    [][ Received =>
          /\ TextWellNested'
          /\ \A m \in MessageIds :
                /\ (/\ IsTextContent(ThisEvent, m) \/ IsTextEnd(ThisEvent, m)
                    /\ m \notin DOMAIN pending_start_events
                    /\ m \notin active_text_message_ids)
                      => ThisChunk = << >> /\ UNCHANGED textVars
                /\ (/\ IsTextStart(ThisEvent, m)
                    /\ m \in DOMAIN pending_start_events \/ m \in active_text_message_ids)
                      => ThisChunk = << >> /\ UNCHANGED textVars
      ]_vars

\* m1 is opened and closed; the TextDelta(m1) that follows finds it closed and is dropped
C9_Witness ==
    /\ Len(inp) = 4
    /\ inp[1] = TextMessageStartEvent("m1")
    /\ inp[2] = TextMessageContentEvent("m1", "x")
    /\ inp[3] = TextMessageEndEvent("m1")
    /\ inp[4] = inp[2]
    /\ out = << << >>, << inp[1], inp[2] >>, << inp[3] >>, << >> >>

(***************************************************************************)
(* C10: a StateSnapshot received from the inner stream is never forwarded: *)
(* it only updates the accumulated agent-layer state; every StateSnapshot  *)
(* in the output is one the engine built by merging the agent layer, the   *)
(* tool-result layer and the frontend layer (later layers win).            *)
(***************************************************************************)
\* snap holds the keys of the three layers, each with the value of the last layer that has it
BuiltFromLayers(snap, agent, toolResult, frontend) ==
    /\ snap.k = "dict"
    /\ DOMAIN snap.v = DOMAIN agent \cup DOMAIN toolResult \cup DOMAIN frontend
    /\ \A key \in DOMAIN snap.v :
          snap.v[key] = IF key \in DOMAIN frontend THEN frontend[key]
                        ELSE IF key \in DOMAIN toolResult THEN toolResult[key]
                        ELSE agent[key]

C10_InnerSnapshotNeverForwarded ==
    [][ Received =>
          /\ IsStateSnapshot(ThisEvent)
                => /\ ThisChunk = << >>
                   /\ \A key \in DOMAIN ThisEvent.snapshot.v :
                         NonEmptyValue(ThisEvent.snapshot.v[key])
                             => /\ key \in DOMAIN last_inner_state'
                                /\ last_inner_state'[key] = ThisEvent.snapshot.v[key]
                   /\ UNCHANGED << extracted_state, frontend_state, toolVars, textVars,
                                   command_tool_called >>
          /\ \A h \in DOMAIN ThisChunk :
                IsStateSnapshot(ThisChunk[h])
                    => BuiltFromLayers(ThisChunk[h].snapshot, last_inner_state',
                                       extracted_state', frontend_state')
      ]_vars

\* the agent's snapshot is swallowed; the snapshot that follows the filter result is merged
\* from the agent layer (flights), the tool result (activeFilter) and the frontend (selectedRoute)
C10_Witness ==
    /\ Len(inp) = 3
    /\ inp[1] = StateSnapshotEvent(
                    JDict([flights |-> JList(<<"f0">>), selectedRoute |-> JStr("AGENT")]))
    /\ IsToolCallStart(inp[2], "t1")
    /\ inp[3] = ToolCallResultEvent("t1", FilterContent)
    /\ out[1] = << >>
    /\ Len(out[3]) = 2
    /\ out[3][1] = inp[3]
    /\ out[3][2] = StateSnapshotEvent(JDict(
           [flights |-> JList(<<"f0">>),
            selectedRoute |-> JStr("SFO -> ORD"),
            activeFilter |-> JDict([routeFrom |-> JStr("LAX"), utilizationType |-> JNull])]))

(***************************************************************************)
(* C11: when a ToolCallResult for a started tool call carries a            *)
(* state-bearing field (flights, historical_data, selectedFlight or        *)
(* activeFilter), the output holds that ToolCallResult immediately         *)
(* followed by a freshly merged StateSnapshot that includes the extracted  *)
(* fields, the snapshot never before the result.                           *)
(***************************************************************************)
StateBearingFields == {"flights", "historical_data", "selectedFlight", "activeFilter"}

\* the content of a tool result parses to a map with a state-bearing field
CarriesState(content) ==
    /\ ParsedResult(content).k = "dict"
    /\ DOMAIN ParsedResult(content).v \cap StateBearingFields # {}

C11_StateResultFollowedBySnapshot ==
    [][ (/\ Received
         /\ ThisEvent.type = "TOOL_CALL_RESULT"
         /\ ThisEvent.tool_call_id \in seen_tool_call_ids
         /\ CarriesState(ThisEvent.content))
          => /\ Len(ThisChunk) = 2
             /\ ThisChunk[1] = ThisEvent
             /\ ThisChunk[2] = StateSnapshotEvent(JDict(
                    Merged(last_inner_state', extracted_state', frontend_state')))
             /\ extracted_state' = ExtractResult(extracted_state,
                                                 ParsedResult(ThisEvent.content))
      ]_vars

(***************************************************************************)
(* C12: when RunFinished arrives, exactly one StateSnapshot is emitted,    *)
(* immediately before the forwarded RunFinished; its content is the merge  *)
(* of what the turn accumulated (agent layer, tool-result layer) with the  *)
(* frontend-owned fields the client declared in its incoming state.        *)
(***************************************************************************)
\* the frontend-owned fields the client declared (present and not null)
DeclaredFrontendFields ==
    { f \in FRONTEND_ONLY_STATE_FIELDS \cap DOMAIN incoming_state : incoming_state[f] # JNull }

C12_OneFinalSnapshotAtRunFinished ==
    [][ (Received /\ ThisEvent.type = "RUN_FINISHED") =>
          /\ Len(ThisChunk) >= 2
          /\ ThisChunk[Len(ThisChunk)] = ThisEvent
          /\ Positions(ThisChunk, IsStateSnapshot) = {Len(ThisChunk) - 1}
          /\ LET snap == ThisChunk[Len(ThisChunk) - 1].snapshot
             IN  /\ BuiltFromLayers(snap, last_inner_state, extracted_state,
                                    [f \in DeclaredFrontendFields |-> incoming_state[f]])
                 /\ \A f \in DeclaredFrontendFields : snap.v[f] = incoming_state[f]
          /\ UNCHANGED << last_inner_state, extracted_state, frontend_state >>
      ]_vars

\* agent snapshot, a filter result and the client's selectedRoute all meet in the final snapshot
C12_Witness ==
    /\ Len(inp) = 4
    /\ inp[1] = StateSnapshotEvent(
                    JDict([flights |-> JList(<<"f0">>), selectedRoute |-> JStr("AGENT")]))
    /\ inp[2] = ToolCallStartEvent("t1", "fetch_flights")
    /\ inp[3] = ToolCallResultEvent("t1", FilterOverContent)
    /\ inp[4] = RunFinishedEvent
    /\ out[4] = << StateSnapshotEvent(JDict(
                      [flights |-> JList(<<"f0">>),
                       selectedRoute |-> JStr("SFO -> ORD"),
                       activeFilter |-> JDict([routeFrom |-> JStr("LAX"),
                                               utilizationType |-> JStr("over")])])),
                   RunFinishedEvent >>

(***************************************************************************)
(* C13: in every merged snapshot the engine emits, each key has the value  *)
(* of the highest-priority layer (frontend over tool-result over agent)    *)
(* among the layers that hold a non-empty value for it (null, the empty    *)
(* list and the empty map are empty); a key is empty in the snapshot only  *)
(* when no layer holds a non-empty value for it.                           *)
(***************************************************************************)
\* layer holds a non-empty value for key
HoldsNonEmpty(layer, key) == key \in DOMAIN layer /\ NonEmptyValue(layer[key])

\* snap follows the per-key rule over the three layers
MergedByNonEmptyPriority(snap, agent, toolResult, frontend) ==
    \A key \in DOMAIN snap.v :
        IF HoldsNonEmpty(frontend, key) THEN snap.v[key] = frontend[key]
        ELSE IF HoldsNonEmpty(toolResult, key) THEN snap.v[key] = toolResult[key]
        ELSE IF HoldsNonEmpty(agent, key) THEN snap.v[key] = agent[key]
        ELSE ~NonEmptyValue(snap.v[key])

C13_NonEmptyHighestPriorityWins ==
    [][ Received =>
          \A h \in DOMAIN ThisChunk :
              IsStateSnapshot(ThisChunk[h])
                  => MergedByNonEmptyPriority(ThisChunk[h].snapshot, last_inner_state',
                                              extracted_state', frontend_state')
      ]_vars

(***************************************************************************)
(* C14: once a snapshot key holds a non-empty value in some layer, a later *)
(* empty or absent value for it (a later backend StateSnapshot, a later    *)
(* tool call) never erases it: every snapshot emitted from then on in the  *)
(* turn carries a non-empty value for the key.                             *)
(***************************************************************************)
\* the keys that hold a non-empty value in some layer
NonEmptyKeys ==
    { key \in DOMAIN last_inner_state \cup DOMAIN extracted_state \cup DOMAIN frontend_state :
        \/ HoldsNonEmpty(last_inner_state, key)
        \/ HoldsNonEmpty(extracted_state, key)
        \/ HoldsNonEmpty(frontend_state, key) }

C14_NonEmptyValueNeverErased ==
    [][ Received =>
          \A key \in NonEmptyKeys :
              \A h \in DOMAIN ThisChunk :
                  IsStateSnapshot(ThisChunk[h]) => HoldsNonEmpty(ThisChunk[h].snapshot.v, key)
      ]_vars

(***************************************************************************)
(* C15: in every snapshot the engine emits, a frontend-owned field         *)
(* (selectedRoute) never has a value that comes from a backend             *)
(* StateSnapshot or from a tool call: it has the value the client declared *)
(* in its incoming state, and is absent when the client declared none.     *)
(***************************************************************************)
C15_FrontendFieldOnlyFromClient ==
    [][ Received =>
          \A h \in DOMAIN ThisChunk :
              IsStateSnapshot(ThisChunk[h]) =>
                  \A f \in FRONTEND_ONLY_STATE_FIELDS \cap DOMAIN ThisChunk[h].snapshot.v :
                      /\ f \in DeclaredFrontendFields
                      /\ ThisChunk[h].snapshot.v[f] = incoming_state[f]
      ]_vars

(***************************************************************************)
(* C17: when the activeFilter of a tool result has a field valued          *)
(* "__KEEP__", the field is a no-op: the value the snapshot holds for that *)
(* field of activeFilter is still there in the snapshot emitted after the  *)
(* result, not overwritten with null.                                      *)
(***************************************************************************)
\* the activeFilter the snapshot holds before the step, an empty map when it holds none
HeldActiveFilter ==
    LET held == Merged(last_inner_state, extracted_state, frontend_state)
    IN  IF "activeFilter" \in DOMAIN held /\ held["activeFilter"].k = "dict"
        THEN held["activeFilter"].v
        ELSE EmptyDict

\* the fields of the activeFilter of a tool result that are valued "__KEEP__"
KeepFields(content) ==
    IF HasActiveFilter(ParsedResult(content))
    THEN { f \in DOMAIN ParsedResult(content).v["activeFilter"].v :
             ParsedResult(content).v["activeFilter"].v[f] = JStr(KEEP) }
    ELSE {}

C17_KeepSentinelLeavesFieldUntouched ==
    [][ (/\ Received
         /\ ThisEvent.type = "TOOL_CALL_RESULT"
         /\ ThisEvent.tool_call_id \in seen_tool_call_ids)
          => \A f \in KeepFields(ThisEvent.content) \cap DOMAIN HeldActiveFilter :
                \A h \in DOMAIN ThisChunk :
                    IsStateSnapshot(ThisChunk[h])
                        => ThisChunk[h].snapshot.v["activeFilter"].v[f] = HeldActiveFilter[f]
      ]_vars

(***************************************************************************)
(* C16: the keep-existing sentinel "__KEEP__" never appears as a value     *)
(* anywhere in a StateSnapshot emitted to the client, for any turn (normal *)
(* or fast path) and whichever layer or incoming state carried it.         *)
(***************************************************************************)
RECURSIVE HoldsSentinel(_)
\* the value is the sentinel or holds it somewhere inside
HoldsSentinel(x) ==
    CASE x.k = "str" -> x.v = KEEP
      [] x.k = "dict" -> \E key \in DOMAIN x.v : HoldsSentinel(x.v[key])
      [] x.k = "list" -> \E i \in DOMAIN x.v : x.v[i] = KEEP
      [] OTHER -> FALSE

C16_NoSentinelInSnapshots ==
    \A j \in DOMAIN Output :
        IsStateSnapshot(Output[j]) => ~HoldsSentinel(Output[j].snapshot)

(***************************************************************************)
(* Vocabulary of the request-shaping properties.                           *)
(***************************************************************************)
\* the message carries a tool-call or a tool-result item
CarriesToolItem(m) ==
    \E i \in DOMAIN m.contents : m.contents[i].kind \in {"function_call", "function_result"}

\* an assistant message made of text items only
IsPureTextAssistant(m) == m.role = "assistant" /\ ~CarriesToolItem(m)

IsUserOrPureText(m) == m.role = "user" \/ IsPureTextAssistant(m)

\* a new-input message: its role is user or tool
IsNewInput(m) == m.role \in {"user", "tool"}

(***************************************************************************)
(* C18: when the conversation id has no stored continuation token, the     *)
(* history sent upstream keeps every user message and every pure-text      *)
(* assistant message, in their original order, and contains no tool-role   *)
(* message and no assistant message that carries a tool-call or a          *)
(* tool-result item.                                                       *)
(***************************************************************************)
C18_FreshStartKeepsOnlyPlainMessages ==
    ~IsContinuation =>
        \A i \in DOMAIN upstream :
            LET sent == upstream[i].messages
            IN  /\ SelectSeq(sent, IsUserOrPureText) = SelectSeq(input_messages, IsUserOrPureText)
                /\ \A j \in DOMAIN sent :
                      /\ sent[j].role # "tool"
                      /\ ~(sent[j].role = "assistant" /\ CarriesToolItem(sent[j]))

\* a fresh start whose history held a backend tool call and its result
C18_Witness ==
    /\ ~IsContinuation
    /\ input_messages = << UserMessage, AssistantBackendCall, BackendToolResult >>
    /\ upstream # << >>
    /\ upstream[1].conversation_id = JNull
    /\ upstream[1].messages = << UserMessage >>

(***************************************************************************)
(* C19: when the conversation id has a stored continuation token, the      *)
(* history sent to the backend is exactly the most recent new-input        *)
(* message (the last message whose role is user or tool) and nothing that  *)
(* precedes it; a history with no user or tool message is sent unchanged.  *)
(***************************************************************************)
C19_ContinuationSendsLastInputOnly ==
    IsContinuation =>
        \A i \in DOMAIN upstream :
            LET sent == upstream[i].messages
            IN  IF \E k \in DOMAIN messages : IsNewInput(messages[k])
                THEN \E k \in DOMAIN messages :
                        /\ IsNewInput(messages[k])
                        /\ \A j \in DOMAIN messages : j > k => ~IsNewInput(messages[j])
                        /\ sent = << messages[k] >>
                ELSE sent = messages

(***************************************************************************)
(* C20: when an assistant message mixes tool-call items with plain text,   *)
(* shaping drops only the tool-call items that are being pruned: the       *)
(* message stays in the outbound history with all its plain-text items and *)
(* with every tool-call item that is not being pruned.                     *)
(***************************************************************************)
\* an assistant message with at least one text item and one tool-call item
MixesTextAndCalls(m) ==
    /\ m.role = "assistant"
    /\ \E i \in DOMAIN m.contents : m.contents[i].kind = "text"
    /\ \E i \in DOMAIN m.contents : m.contents[i].kind = "function_call"

\* the tool-call item is pruned: every one on a fresh start, the frontend-only
\* ones when the conversation continues
IsPrunedCall(c) ==
    /\ c.kind = "function_call"
    /\ (~IsContinuation \/ c.name \in FRONTEND_ONLY_TOOLS)

IsNotPrunedCall(c) == ~IsPrunedCall(c)

C20_MixedMessageKeepsItsText ==
    status = "running" =>
        \A i \in DOMAIN input_messages :
            MixesTextAndCalls(input_messages[i]) =>
                \E j \in DOMAIN messages :
                    messages[j] = ChatMessage("assistant",
                                      SelectSeq(input_messages[i].contents, IsNotPrunedCall))

(***************************************************************************)
(* C21: on every turn that reaches the backend, fresh or continuing, the   *)
(* outbound history contains no tool-call item for a frontend-only tool    *)
(* and no tool-result message that answers such a call.                    *)
(***************************************************************************)
\* the ids of the calls of frontend-only tools in the history the client sent
FrontendCallIdsOfRequest ==
    { c.call_id : c \in
        { x \in UNION { Range(input_messages[i].contents) : i \in DOMAIN input_messages } :
            x.kind = "function_call" /\ x.name \in FRONTEND_ONLY_TOOLS } }

\* the item is a call of a frontend-only tool
IsFrontendCallItem(c) == c.kind = "function_call" /\ c.name \in FRONTEND_ONLY_TOOLS

\* the message is a tool-role message answering a call of a frontend-only tool
AnswersFrontendCall(m) ==
    /\ m.role = "tool"
    /\ \E c \in Range(m.contents) :
          c.kind = "function_result" /\ c.call_id \in FrontendCallIdsOfRequest

C21_NoFrontendToolTrafficUpstream ==
    \A i \in DOMAIN upstream :
        \A j \in DOMAIN upstream[i].messages :
            LET m == upstream[i].messages[j]
            IN  /\ \A c \in Range(m.contents) : ~IsFrontendCallItem(c)
                /\ ~AnswersFrontendCall(m)

\* a continuing turn whose history held a frontend-only call and its result
C21_Witness ==
    /\ IsContinuation
    /\ input_messages = << AssistantFrontendCall, FrontendToolResult, AssistantText >>
    /\ upstream # << >>
    /\ upstream[1].messages = << AssistantText >>

(***************************************************************************)
(* C22: when the last message of a turn is a tool result for a             *)
(* frontend-only tool call, the upstream backend is not invoked and the    *)
(* turn's whole output is RunStarted, then a StateSnapshot equal to the    *)
(* client's incoming state when that state is non-empty, then RunFinished; *)
(* the conversation's stored continuation token is removed and no other    *)
(* store entry changes.                                                    *)
(***************************************************************************)
\* the last message of the request is a tool result that answers a frontend-only call
EndsWithFrontendToolResult ==
    /\ input_messages # << >>
    /\ AnswersFrontendCall(input_messages[Len(input_messages)])

C22_FastPathTurn ==
    [][ (status = "request" /\ EndsWithFrontendToolResult) =>
            /\ status' = "closed"
            /\ upstream' = << >>
            /\ Len(Output') \in {2, 3}
            /\ Output'[1].type = "RUN_STARTED"
            /\ Output'[Len(Output')].type = "RUN_FINISHED"
            /\ IF incoming_state = EmptyDict
               THEN Len(Output') = 2
               ELSE /\ Len(Output') = 3
                    /\ Output'[2] = StateSnapshotEvent(JDict(incoming_state))
            /\ DOMAIN thread_response_store' = DOMAIN thread_response_store \ {agui_thread_id}
            /\ \A t \in DOMAIN thread_response_store' :
                  thread_response_store'[t] = thread_response_store[t]
      ]_vars

\* a fast-path turn of th1 done: its token is gone, that of th2 is still there
C22_Witness ==
    /\ status = "closed"
    /\ EndsWithFrontendToolResult
    /\ agui_thread_id = "th1"
    /\ thread_response_store = [th2 |-> "resp_2"]
    /\ incoming_state # EmptyDict
    /\ Len(Output) = 3

(***************************************************************************)
(* C23: after a fast-path turn for a conversation, the next turn for that  *)
(* conversation is handled as a fresh start: no continuation token is      *)
(* passed to the backend and the history is pruned by the fresh-start      *)
(* rule, also when other turns of the same conversation are in flight.     *)
(***************************************************************************)
\* turn t is a normal turn that began right after a fast-path turn of its conversation
IsTurnAfterFastPath(t) == turns[t].after_fast /\ ~turns[t].fast

C23_TurnAfterFastPathStartsFresh ==
    \A t \in Turns :
        IsTurnAfterFastPath(t) =>
            /\ ~turns[t].is_continuation
            /\ turns[t].passed # << >> =>
                   /\ turns[t].passed[1].conversation_id = ""
                   /\ ~turns[t].passed[1].trimmed

(***************************************************************************)
(* C24: after a streamed upstream call of a turn runs to completion, the   *)
(* store maps the turn's conversation id to the last token the stream      *)
(* carried (the conversation_id of an update taking precedence over its    *)
(* response_id), and the next request for that conversation passes exactly *)
(* that token to the backend as its conversation id.                       *)
(***************************************************************************)
\* the token an update carries: its conversation_id if it has one, else its response_id
TokenOf(update) ==
    IF update.conversation_id # "" THEN update.conversation_id ELSE update.response_id

\* the last token the updates carried, "" if none did
LastTokenOf(updates) ==
    LET carrying == { i \in 1..Len(updates) : TokenOf(updates[i]) # "" }
    IN  IF carrying = {} THEN ""
        ELSE TokenOf(updates[CHOOSE i \in carrying : \A j \in carrying : j <= i])

\* the token begins with "resp_" or "conv_"
IsContinuationToken(tok) == \E n \in 0..MaxTurns : tok \in { RespToken(n), ConvToken(n) }

\* the step is the end of a backend stream of turn t
CompletesStream(t) ==
    /\ turns[t].pc \in {"awaiting", "streaming"}
    /\ turns'[t].pc = "ready"

\* the step is a backend call of turn t
CallsBackend(t) ==
    /\ turns[t].pc = "ready"
    /\ turns'[t].pc = "awaiting"

\* the conversation id the last backend call of turn t received
LastPassed(turn) == turn.passed[Len(turn.passed)].conversation_id

\* as claimed: whatever token the stream carried last is stored
C24_StoreHoldsLastStreamToken ==
    [][ \A t \in Turns :
           (CompletesStream(t) /\ LastTokenOf(turns[t].streamed) # "") =>
               /\ turns[t].thread \in DOMAIN thread_response_store'
               /\ thread_response_store'[turns[t].thread] = LastTokenOf(turns[t].streamed)
      ]_vars

\* C24, amended: when a stream of a turn completes, the store maps the turn's
\* conversation id to the last token the stream carried if that token begins with
\* "resp_" or "conv_", and is left unchanged otherwise; the next backend call for the
\* conversation passes the stored token, which is that token if one was stored
C24_StoreHoldsLastContinuationToken ==
    [][ \A t \in Turns :
           LET tok == LastTokenOf(turns[t].streamed)
           IN  /\ CompletesStream(t) =>
                      thread_response_store' =
                          IF IsContinuationToken(tok)
                          THEN DictSet(thread_response_store, turns[t].thread, tok)
                          ELSE thread_response_store
               /\ CallsBackend(t) =>
                      /\ LastPassed(turns'[t]) =
                             DictGet(thread_response_store, turns[t].thread, "")
                      /\ (turns[t].passed # << >> /\ IsContinuationToken(tok)) =>
                             LastPassed(turns'[t]) = tok
      ]_vars

\* a stream of the first turn ended with an update that carries both ids; the conv_
\* token was stored and the second call of the turn passed it
C24_Witness ==
    /\ Len(turns[1].passed) = 2
    /\ turns[1].thread = "th1"
    /\ turns[1].passed[2].conversation_id = ConvToken(1)
    /\ thread_response_store = [th1 |-> ConvToken(1)]

(***************************************************************************)
(* C25: a turn that is cancelled before it completes leaves the Session    *)
(* Continuity Store exactly as it was when the turn began; this holds for  *)
(* normal turns, for turns with several upstream calls, and for fast-path  *)
(* turns.                                                                  *)
(***************************************************************************)
\* the step ends turn t at a point at which run() is suspended at a yield: it is, or
\* is the same step as, the cancellation of the turn at that point
IsCancelled(t) ==
    /\ \/ turns[t].pc \in {"fast_started", "streaming"}
       \/ turns[t].pc = "ready" /\ turns[t].passed # << >>
    /\ turns'[t].pc = "over"

\* turns run one after the other here, so that between the beginning of a turn and
\* its cancellation only the turn itself acts on the store
C25_CancelledTurnLeavesStoreAsItBegan ==
    [][ \A t \in Turns :
           IsCancelled(t) =>
               DictGet(thread_response_store', turns[t].thread, "") = turns[t].began_with
      ]_vars

(***************************************************************************)
(* C26: when the backend rejects the continuation token of a turn or       *)
(* reports a missing tool output, the stored continuation token for that   *)
(* conversation is cleared, so the next turn for that conversation starts  *)
(* fresh instead of passing the same token again.                          *)
(***************************************************************************)
\* the step is the failure of a backend call of turn t
IsRejected(t) == turns[t].pc = "awaiting" /\ turns'[t].pc = "over"

C26_RejectedTokenIsCleared ==
    [][ \A t \in Turns :
           IsRejected(t) => turns[t].thread \notin DOMAIN thread_response_store'
      ]_vars

(***************************************************************************)
(* C29: the active-conversation-id binding set at the start of a turn is   *)
(* visible only to that turn: the middleware of a concurrently executing   *)
(* turn for another conversation never reads it, and when the turn ends    *)
(* (normally, through the fast path, or with an error) the binding is      *)
(* restored to the value it had before the turn.                           *)
(***************************************************************************)
\* the turn has begun and is not over
InFlight(t) == turns[t].pc \notin {"idle", "over"}

C29_BindingBelongsToItsTurn ==
    \A t \in Turns :
        /\ InFlight(t) =>
               /\ binding[ContextOf(t)] = turns[t].thread
               /\ \A i \in 1..Len(turns[t].passed) :
                      turns[t].passed[i].thread = turns[t].thread
        /\ Ended(t) => binding[ContextOf(t)] = turns[t].token

\* while the first turn, for th2, waits for the backend, a turn for th1 and then a
\* fast-path turn for th1 began and ended
C29_Witness ==
    /\ turns[1].pc = "awaiting"
    /\ turns[1].thread = "th2"
    /\ turns[1].passed[1].thread = "th2"
    /\ turns[2].pc = "over"
    /\ ~turns[2].fast
    /\ turns[2].thread = "th1"
    /\ turns[3].pc = "over"
    /\ turns[3].fast
    /\ turns[3].thread = "th1"
    /\ binding = [c \in Turns |-> IF c = 1 THEN "th2" ELSE ""]

(***************************************************************************)
(* C30: under any interleaving of concurrent turns, a turn for             *)
(* conversation A reads, writes and deletes only the store entry keyed by  *)
(* A: the entry of every other conversation B is unchanged by it, and a    *)
(* token stored for A never makes a turn for B a continuation.             *)
(***************************************************************************)
\* the token was issued in the conversation: it is the one the store held for it at
\* the start, or the backend sent it in a stream of a turn of the conversation
IssuedIn(tok, thread) ==
    \/ tok = "resp_0" /\ thread = "th1"
    \/ \E u \in Turns : tok = RespToken(u) /\ turns[u].thread = thread

\* the store holds for every conversation a token issued in it, and every turn that
\* continues passes a token issued in its own conversation
TokensStayInTheirConversation ==
    /\ \A k \in DOMAIN thread_response_store : IssuedIn(thread_response_store[k], k)
    /\ \A t \in Turns : \A i \in 1..Len(turns[t].passed) :
           turns[t].passed[i].conversation_id # "" =>
               IssuedIn(turns[t].passed[i].conversation_id, turns[t].thread)

C30_TurnTouchesOnlyItsOwnEntry ==
    [][ /\ \A t \in Turns : \A k \in ThreadIds :
               (turns'[t] # turns[t] /\ k # turns'[t].thread) =>
                   DictGet(thread_response_store', k, "") = DictGet(thread_response_store, k, "")
        /\ \A t \in Turns :
               (turns[t].pc = "idle" /\ turns'[t].is_continuation) =>
                   turns'[t].thread \in DOMAIN thread_response_store
        /\ TokensStayInTheirConversation'
      ]_vars

\* a turn for th2 stored its token, a fast-path turn for th1 deleted that of th1 and
\* left that of th2, and the next turn for th1 called the backend without a token
C30_Witness ==
    /\ thread_response_store = [th2 |-> RespToken(1)]
    /\ turns[1].thread = "th2"
    /\ turns[2].thread = "th1"
    /\ turns[2].fast
    /\ turns[3].thread = "th1"
    /\ turns[3].pc = "awaiting"
    /\ turns[3].passed[1].conversation_id = ""

(***************************************************************************)
(* C27: for every sequence of upstream events, including duplicate,        *)
(* orphaned and out-of-order events and events whose payload fields are    *)
(* null or of an unexpected shape (a StateSnapshot with flights null, a    *)
(* tool result whose activeFilter is not a map, tool arguments that parse  *)
(* to a non-map), DeduplicatingOrchestrator.run raises no error and        *)
(* continues to process the remaining events.                              *)
(***************************************************************************)
C27_RunRaisesNoError == status # "raised"

(***************************************************************************)
(* C28: buffered tool-call arguments are parsed only when the ToolCallEnd  *)
(* for that id is accepted, and when the buffer does not parse the         *)
(* ToolCallEnd is still forwarded exactly once, no state is extracted from *)
(* that call, no snapshot is emitted for it, and the turn continues.       *)
(***************************************************************************)
\* the step handles one event of the inner stream
HandlesEvent == Len(inp') = Len(inp) + 1

\* the event the step handles, and what the step yields
HandledEvent == inp'[Len(inp')]

HandledChunk == out'[Len(out')]

\* the step handles a ToolCallEnd whose call has started and has not ended, with
\* buffered arguments that do not parse
AcceptsEndOfUnparsedArgs ==
    /\ HandlesEvent
    /\ HandledEvent.type = "TOOL_CALL_END"
    /\ HandledEvent.tool_call_id \in seen_tool_call_ids \ completed_tool_call_ids
    /\ HandledEvent.tool_call_id \in DOMAIN tool_args_buffer
    /\ ~JsonValid(tool_args_buffer[HandledEvent.tool_call_id])

C28_UnparsedArgsAreNotFatal ==
    [][ /\ AcceptsEndOfUnparsedArgs =>
               /\ HandledChunk = << HandledEvent >>
               /\ extracted_state' = extracted_state
               /\ status' = "running"
        /\ (HandlesEvent /\ HandledEvent.type = "TOOL_CALL_ARGS") =>
               /\ extracted_state' = extracted_state
               /\ \A i \in DOMAIN HandledChunk : HandledChunk[i].type # "STATE_SNAPSHOT"
               /\ status' = "running"
        /\ (HandlesEvent /\ HandledEvent.type = "TOOL_CALL_END"
               /\ HandledEvent.tool_call_id \in completed_tool_call_ids) =>
               HandledChunk = << >>
      ]_vars

\* a filter_dashboard call ended with half of its arguments buffered: the end was
\* passed on alone, nothing was extracted, the loop waits for the next event
C28_Witness ==
    /\ inp = << ToolCallStartEvent("t1", "filter_dashboard"),
                ToolCallArgsEvent("t1", ArgsOpen),
                ToolCallEndEvent("t1") >>
    /\ out[3] = << ToolCallEndEvent("t1") >>
    /\ extracted_state = EmptyDict
    /\ status = "running"

(***************************************************************************)
(* C31: the argument-fragment buffer of a tool call belongs to one turn:   *)
(* the string parsed at ToolCallEnd is the concatenation, in arrival       *)
(* order, of exactly the ToolCallArgsDelta fragments accepted for that     *)
(* toolCallId in the same turn, and contains no fragment received in an    *)
(* earlier turn or in a concurrently running turn that uses the same       *)
(* toolCallId.                                                             *)
(***************************************************************************)
\* the fragments of the first n events of the turn that were accepted for
\* filter_dashboard call id (passed on while the call was open), concatenated
RECURSIVE FragmentsOfTurn(_, _)
FragmentsOfTurn(id, n) ==
    IF n = 0 THEN ""
    ELSE IF /\ inp[n].type = "TOOL_CALL_ARGS"
            /\ inp[n].tool_call_id = id
            /\ out[n] = << inp[n] >>
         THEN FragmentsOfTurn(id, n - 1) \o inp[n].delta
         ELSE FragmentsOfTurn(id, n - 1)

\* the step handles a ToolCallEnd of a filter_dashboard call that has started and has
\* not ended
AcceptsEndOfFilterCall ==
    /\ HandlesEvent
    /\ HandledEvent.type = "TOOL_CALL_END"
    /\ HandledEvent.tool_call_id \in seen_tool_call_ids \ completed_tool_call_ids
    /\ tool_call_names[HandledEvent.tool_call_id] = "filter_dashboard"

C31_ParsedArgsAreThoseOfTheTurn ==
    [][ AcceptsEndOfFilterCall =>
            BufferedArgs(HandledEvent.tool_call_id) =
                FragmentsOfTurn(HandledEvent.tool_call_id, Len(inp))
      ]_vars

(***************************************************************************)
(* C32: state extracted from a forwarded ToolCallResult (flights,          *)
(* historical_data as historicalData, selectedFlight, activeFilter) is     *)
(* present in the final StateSnapshot of the turn: with a fresh turn, two  *)
(* ToolCallStart events for one id and one ToolCallResult carrying a       *)
(* flights list, the output holds one ToolCallStart, one ToolCallResult    *)
(* and a final snapshot whose flights equals that list.                    *)
(***************************************************************************)
\* the events of the turn that are tool results passed on to the client and carry a
\* flights field
ForwardedFlightsResults ==
    { i \in DOMAIN inp :
        /\ inp[i].type = "TOOL_CALL_RESULT"
        /\ out[i] # << >>
        /\ JsonValid(inp[i].content)
        /\ JsonLoads(inp[i].content).k = "dict"
        /\ "flights" \in DOMAIN JsonLoads(inp[i].content).v }

FlightsOfResult(i) == JsonLoads(inp[i].content).v["flights"]

\* the step handles RunFinished and yields the final snapshot
EmitsFinalSnapshot ==
    /\ HandlesEvent
    /\ HandledEvent.type = "RUN_FINISHED"
    /\ status' = "running"

\* the final snapshot: the event yielded right before RunFinished
FinalSnapshot == HandledChunk[Len(HandledChunk) - 1].snapshot.v

EveryTextStartIsEnded ==
    \A i \in DOMAIN Output :
        Output[i].type = "TEXT_MESSAGE_START" =>
            \E j \in DOMAIN Output :
                /\ j > i
                /\ Output[j].type = "TEXT_MESSAGE_END"
                /\ Output[j].message_id = Output[i].message_id

\* the output holds a StateSnapshot
HasFinalSnapshot == \E i \in DOMAIN Output : Output[i].type = "STATE_SNAPSHOT"

C33_ClosedStreamIsWellFormed ==
    status = "closed" => (EveryTextStartIsEnded /\ HasFinalSnapshot)

(***************************************************************************)
(* C34: state extraction from a ToolCallResult depends on the tool's name: *)
(* a result from a tool that has no configured result-to-state mapping     *)
(* changes nothing in the tool-result layer and triggers no snapshot, even *)
(* when its payload has a field named flights, historical_data,            *)
(* selectedFlight or activeFilter; the result event itself is still        *)
(* forwarded.                                                              *)
(***************************************************************************)
\* the step handles the result of a started call of a frontend-only tool: the UI
\* runs these tools, no backend result of theirs is mapped to state
HandlesResultOfUnmappedTool ==
    /\ HandlesEvent
    /\ HandledEvent.type = "TOOL_CALL_RESULT"
    /\ HandledEvent.tool_call_id \in seen_tool_call_ids
    /\ tool_call_names[HandledEvent.tool_call_id] \in FRONTEND_ONLY_TOOLS

C34_UnmappedToolResultExtractsNothing ==
    [][ HandlesResultOfUnmappedTool =>
            /\ extracted_state' = extracted_state
            /\ HandledChunk = << HandledEvent >>
      ]_vars

(***************************************************************************)
(* C35: the engine preserves strict ordering: the events it forwards from  *)
(* upstream appear in the output in the same relative order in which they  *)
(* arrived, so the output with engine-built StateSnapshot events and       *)
(* synthetic TextEnd events removed is a subsequence of the upstream event *)
(* sequence.                                                               *)
(***************************************************************************)
RECURSIVE IsSubsequence(_, _)
IsSubsequence(a, b) ==
    IF a = << >> THEN TRUE
    ELSE IF b = << >> THEN FALSE
    ELSE IF Head(a) = Head(b) THEN IsSubsequence(Tail(a), Tail(b))
    ELSE IsSubsequence(a, Tail(b))

\* the event of a chunk was built by the engine: a StateSnapshot, or a TextEnd
\* yielded while RunFinished was handled
IsEngineBuilt(i, x) ==
    \/ x.type = "STATE_SNAPSHOT"
    \/ inp[i].type = "RUN_FINISHED" /\ x.type = "TEXT_MESSAGE_END"

\* the events of chunk i that came from upstream
ForwardedOf(i) == SelectSeq(out[i], LAMBDA x : ~IsEngineBuilt(i, x))

\* the same without the TextStart events
ForwardedButStartsOf(i) == SelectSeq(ForwardedOf(i), LAMBDA x : x.type # "TEXT_MESSAGE_START")

\* as claimed: what was forwarded is a subsequence of what arrived
C35_ForwardedIsSubsequence ==
    IsSubsequence(Flatten([i \in DOMAIN out |-> ForwardedOf(i)]), inp)

\* C35, amended: apart from TextStart events, the events forwarded from upstream
\* appear in the order in which they arrived, each one while it is handled; a
\* TextStart is held and is emitted later than it arrived, right before the first
\* TextDelta of its message
C35_ForwardedInOrderButHeldStarts ==
    /\ IsSubsequence(Flatten([i \in DOMAIN out |-> ForwardedButStartsOf(i)]), inp)
    /\ \A i \in DOMAIN out :
           /\ ForwardedButStartsOf(i) \in { << >>, << inp[i] >> }
           /\ \A k \in DOMAIN out[i] :
                  out[i][k].type = "TEXT_MESSAGE_START" =>
                      /\ inp[i].type = "TEXT_MESSAGE_CONTENT"
                      /\ out[i] = << out[i][k], inp[i] >>
                      /\ out[i][k].message_id = inp[i].message_id
                      /\ \E j \in 1..(i - 1) : inp[j] = out[i][k]

\* two messages whose contents arrive in the other order than their starts: the
\* start of m2 is emitted before the start of m1
C35_Witness ==
    /\ inp = << TextMessageStartEvent("m1"), TextMessageStartEvent("m2"),
                TextMessageContentEvent("m2", "x"), TextMessageContentEvent("m1", "x") >>
    /\ Output = << TextMessageStartEvent("m2"), TextMessageContentEvent("m2", "x"),
                   TextMessageStartEvent("m1"), TextMessageContentEvent("m1", "x") >>

(***************************************************************************)
(* C36: the decision the orchestrator takes at the start of a turn         *)
(* (continuation or fresh start, which selects the history pruning) agrees *)
(* with what the middleware does when the backend is called in that turn   *)
(* (pass a stored token and trim, or pass none): under any interleaving    *)
(* with other turns of the same conversation, no turn sends a continuation *)
(* token together with a fresh-start-pruned history, and no turn sends an  *)
(* unpruned history with no token.                                         *)
(***************************************************************************)
\* the backend call of the step passes a token
PassesToken(t) == LastPassed(turns'[t]) # ""

C36_DecisionAgreesWithCall ==
    [][\A t \in Turns :
          CallsBackend(t) => (PassesToken(t) <=> turns[t].is_continuation)]_vars

(***************************************************************************)
(* C37: every value held in the Session Continuity Store, in every         *)
(* reachable state, is a token that begins with "resp_" or "conv_"; a      *)
(* completed stream whose last token has another prefix, or that carried   *)
(* no token, leaves the conversation's entry as it was.                    *)
(***************************************************************************)
StoreHoldsContinuationTokens ==
    \A thread \in DOMAIN thread_response_store :
        IsContinuationToken(thread_response_store[thread])

\* the stream that ends carried no token last that begins with "resp_" or "conv_"
EndsWithoutContinuationToken(t) ==
    CompletesStream(t) /\ ~IsContinuationToken(LastTokenOf(turns[t].streamed))

C37_StoreHoldsOnlyContinuationTokens ==
    /\ []StoreHoldsContinuationTokens
    /\ [][\A t \in Turns :
            EndsWithoutContinuationToken(t) =>
                thread_response_store' = thread_response_store]_vars

\* the second stream of a turn ends with the id of another API: the store keeps the
\* token of the first stream
C37_Witness ==
    /\ turns[1].pc = "ready"
    /\ Len(turns[1].passed) = 2
    /\ turns[1].streamed = << [response_id |-> OtherToken, conversation_id |-> ""] >>
    /\ thread_response_store = ("th1" :> RespToken(1))

(***************************************************************************)
(* C38: a text message that is already active (TextStart and a TextDelta   *)
(* emitted) when text suppression begins is still closed exactly once: its *)
(* later TextDelta events are suppressed, but its TextEnd is forwarded     *)
(* when it arrives, or a synthetic TextEnd is emitted at RunFinished, and  *)
(* never both.                                                             *)
(***************************************************************************)
\* m is open in the output so far
OpenInOutput(m) == OpenBefore(Output, Len(Output) + 1, m)

\* the TextEnd events for m that the step emits
EndsEmitted(m) == Positions(ThisChunk, LAMBDA x : IsTextEnd(x, m))

ForwardsFilterResult ==
    /\ Received
    /\ ThisEvent.type = "TOOL_CALL_RESULT"
    /\ ThisChunk # << >>
    /\ ThisChunk[1] = ThisEvent
    /\ LET result == ParsedResult(ThisEvent.content)
       IN  result.k = "dict" /\ "activeFilter" \in DOMAIN result.v

FollowsToolCallResult(j) == j > 1 /\ Output[j - 1].type = "TOOL_CALL_RESULT"

PrecedesRunFinished(j) == j < Len(Output) /\ Output[j + 1].type = "RUN_FINISHED"

C40_SnapshotsOnlyAfterResultOrAtRunFinished ==
    \A j \in DOMAIN Output :
        IsStateSnapshot(Output[j]) => FollowsToolCallResult(j) \/ PrecedesRunFinished(j)

====
